---------------------------- MODULE Spec2Model ----------------------------
(***************************************************************************)
(* A model of the Telegram expense logging bot:                            *)
(*   - bot/utils.py          the message parser (parse_expense_message)     *)
(*   - sheets/client.py      the HTTP client of the Apps Script web app     *)
(*   - sheets/operations.py  the ledger facade (SheetOperations)            *)
(*   - setup_google_sheets.py / fix_apps_script.py  the Apps Script doPost  *)
(*   - bot/ai_analysis.py    the staged analyzer (MistralAnalyzer)          *)
(*   - bot/handlers.py       the command, button and message handlers       *)
(*                                                                         *)
(* Text is a sequence of one-character strings.  An optional value (Python *)
(* None or a value) is the empty sequence or a one-element sequence.       *)
(***************************************************************************)
EXTENDS Integers, Sequences, FiniteSets, TLC

VARIABLES
    msg,        \* parser: the message text handed to parse_expense_message
    ret,        \* parser: <<>> before the call, then the returned triple
    script,     \* ledger: which Apps Script is deployed, "setup" or "fixed"
    sheet,      \* ledger: the rows of the Expenses worksheet
    req,        \* ledger: the doPost executions, by request number
    call,       \* ledger: the request the client is blocked on, or None
    calls,      \* ledger: the log_expense calls that returned, in order
    up,         \* bot: whether the web app answers requests
    ai_analyzer,\* bot: BotHandlers.ai_analyzer, None or the analyzer
    run,        \* bot: the update being handled and what the handler did
    an,         \* bot: the analyze_expenses call of that handler
    tasks,      \* bot: the AI handlers running as tasks of the event loop
    facade      \* core: the last direct call of a ledger or analyzer operation

parserVars == <<msg, ret>>
ledgerVars == <<script, sheet, req, call, calls>>
botVars == <<up, ai_analyzer, run, an, tasks>>
facadeVars == <<facade>>

vars == <<msg, ret, script, sheet, req, call, calls, up, ai_analyzer, run, an, tasks,
          facade>>

None == <<>>
Some(x) == <<x>>

SetMin(S) == CHOOSE x \in S : \A y \in S : x <= y
SetMax(S) == CHOOSE x \in S : \A y \in S : x >= y

Rep(c, n) == [i \in 1..n |-> c]

\* no update is being handled and no analysis has been started
NoRun == [op |-> "none", pc |-> "idle", down |-> FALSE, trace |-> <<>>]
NoAnalysis ==
    [stage |-> "Idle", from |-> "", period |-> "", df |-> "", categories |-> None,
     totals |-> None, insights |-> None, result |-> None, error |-> None,
     log |-> <<>>, heard |-> <<>>]

\* no operation of the core has been called directly
NoCall ==
    [op |-> "none", amount |-> [int |-> <<>>, frac |-> <<>>], category |-> <<>>,
     response |-> [kind |-> "none"], posts |-> <<>>, success |-> FALSE,
     message |-> <<>>, raised |-> FALSE, arg |-> <<>>, returned |-> <<>>]

\* no AI handler runs as a task, and no analyzer was constructed
NoTasks == [handler |-> <<>>, constructed |-> 0]

BotIdle ==
    /\ up = TRUE
    /\ ai_analyzer = None
    /\ run = NoRun
    /\ an = NoAnalysis
    /\ tasks = NoTasks
    /\ facade = NoCall

-----------------------------------------------------------------------------
(* Characters.  str.strip() and the regex class \s agree on whitespace,     *)
(* \d is a decimal digit, and "." of the regex matches all but a newline.   *)

Whitespace == {" ", "\n", "\t"}
DigitChars == {"0", "1", "2", "3", "4", "5", "6", "7", "8", "9"}

IsSpace(c) == c \in Whitespace
IsDigit(c) == c \in DigitChars

\* str.strip(): the text without its leading and trailing whitespace
Strip(s) ==
    LET keep == {i \in 1..Len(s) : ~IsSpace(s[i])}
    IN  IF keep = {} THEN <<>> ELSE SubSeq(s, SetMin(keep), SetMax(keep))

\* the last index of the run of characters of class C that starts at i
\* (i - 1 when s[i] is not of the class): a greedy C*
RunEnd(s, i, C) ==
    LET stop == {j \in i..Len(s) : s[j] \notin C}
    IN  IF stop = {} THEN Len(s) ELSE SetMin(stop) - 1

-----------------------------------------------------------------------------
(* re.match(r'^(\d+(?:[.,]\d+)?)\s+(.+)$', message)                         *)
(*                                                                         *)
(* \d+ is greedy and what follows it can start with neither a digit, so    *)
(* group 1 is the maximal digit run, extended by a separator and the       *)
(* maximal digit run after it when both are there.  \s+ is greedy and      *)
(* gives characters back until (.+)$ matches: .+ runs to the first newline *)
(* and $ holds at the end of the text or before a newline that ends it.    *)

AmountEnd(s) ==
    LET d1 == RunEnd(s, 1, DigitChars)
    IN  IF d1 = 0 THEN 0
        ELSE IF d1 + 2 <= Len(s) /\ s[d1 + 1] \in {".", ","} /\ IsDigit(s[d1 + 2])
             THEN RunEnd(s, d1 + 2, DigitChars)
             ELSE d1

\* (.+)$ tried at position p: the matched text, or None
DotPlusToEnd(s, p) ==
    LET e == RunEnd(s, p, {s[i] : i \in 1..Len(s)} \ {"\n"})
    IN  IF p <= Len(s) /\ e >= p /\ (e = Len(s) \/ (e = Len(s) - 1 /\ s[Len(s)] = "\n"))
        THEN Some(SubSeq(s, p, e))
        ELSE None

\* the match object's groups: None, or Some(<<amount_str, category>>)
ReMatch(s) ==
    LET a == AmountEnd(s)
        w == RunEnd(s, a + 1, Whitespace)
        ok == {k \in (a + 1)..w : DotPlusToEnd(s, k + 1) # None}
    IN  IF a = 0 \/ ok = {} THEN None
        ELSE Some(<<SubSeq(s, 1, a), DotPlusToEnd(s, SetMax(ok) + 1)[1]>>)

-----------------------------------------------------------------------------
(* float(amount_str): an IEEE 754 double.                                   *)
(*                                                                         *)
(* A double is written as the decimal numeral that denotes it: the digits  *)
(* before the point without leading zeros and the digits after it without  *)
(* trailing zeros.  A numeral of at most DBL_DIG significant digits above  *)
(* the subnormal range denotes one double and is kept as it is.  Two       *)
(* roundings of float() are modelled, the ones the parser's comparisons    *)
(* can see:                                                                *)
(*   - a value below 1e-324 is below half the least subnormal (2^-1075,    *)
(*     about 2.47e-324) and becomes 0.0;                                   *)
(*   - a value with a seven-digit integer part n and a fraction below      *)
(*     1e-11 is within half an ulp of n (ulp >= 2^-33 from 2^19 on, about  *)
(*     1.16e-10) and becomes n.                                            *)

DBL_DIG == 15
UnderflowZeros == 324
HalfUlpZeros == 11
HalfUlpIntDigits == 7

StripLeadingZeros(ds) ==
    LET nz == {i \in 1..Len(ds) : ds[i] # "0"}
    IN  IF nz = {} THEN <<>> ELSE SubSeq(ds, SetMin(nz), Len(ds))

StripTrailingZeros(ds) ==
    LET nz == {i \in 1..Len(ds) : ds[i] # "0"}
    IN  IF nz = {} THEN <<>> ELSE SubSeq(ds, 1, SetMax(nz))

LeadingZeros(ds) == RunEnd(ds, 1, {"0"})

\* whether float() accepts the text: digits, optionally a point and digits
IsFloatLiteral(t) ==
    LET d1 == RunEnd(t, 1, DigitChars)
    IN  /\ d1 >= 1
        /\ \/ d1 = Len(t)
           \/ /\ d1 + 2 <= Len(t)
              /\ t[d1 + 1] = "."
              /\ RunEnd(t, d1 + 2, DigitChars) = Len(t)

\* the exact decimal value of a float literal, as a numeral
Decimal(t) ==
    LET d1 == RunEnd(t, 1, DigitChars)
    IN  [int  |-> StripLeadingZeros(SubSeq(t, 1, d1)),
         frac |-> StripTrailingZeros(SubSeq(t, d1 + 2, Len(t)))]

Zero == [int |-> <<>>, frac |-> <<>>]

SigDigits(d) ==
    IF d.int # <<>> THEN Len(d.int) + Len(d.frac)
    ELSE Len(d.frac) - LeadingZeros(d.frac)

\* the double nearest to the decimal d
RoundToDouble(d) ==
    IF d.int = <<>> /\ LeadingZeros(d.frac) >= UnderflowZeros THEN Zero
    ELSE IF Len(d.int) = HalfUlpIntDigits /\ LeadingZeros(d.frac) >= HalfUlpZeros
         THEN [int |-> d.int, frac |-> <<>>]
    ELSE d

Float(t) == RoundToDouble(Decimal(t))

\* the numerals this model of float() is exact for: one of the two roundings
\* applies, or the numeral is short and above the subnormal range
NormalZeros == 307

FloatModelled(t) ==
    LET d == Decimal(t)
    IN  \/ RoundToDouble(d) # d
        \/ SigDigits(d) <= DBL_DIG /\ LeadingZeros(d.frac) < NormalZeros

DigitVal(c) == CHOOSE n \in 0..9 : <<"0","1","2","3","4","5","6","7","8","9">>[n + 1] = c

\* a < b for two digit sequences of the same length
DigitLess(a, b) ==
    \E i \in 1..Len(a) :
        /\ \A j \in 1..(i - 1) : a[j] = b[j]
        /\ DigitVal(a[i]) < DigitVal(b[i])

\* x > n for a double x and the integer whose digits are ns
GreaterThanInt(x, ns) ==
    \/ Len(x.int) > Len(ns)
    \/ /\ Len(x.int) = Len(ns)
       /\ \/ DigitLess(ns, x.int)
          \/ x.int = ns /\ x.frac # <<>>

\* the literal 1000000 of "if amount > 1000000"
MAX_AMOUNT == <<"1", "0", "0", "0", "0", "0", "0">>
MAX_CATEGORY_LEN == 100

-----------------------------------------------------------------------------
(* parse_expense_message                                                    *)

ERR_EMPTY == "Message is empty."
ERR_FORMAT == "Invalid format. Please use: amount category (e.g., 6.60 food)"
ERR_AMOUNT == "Invalid amount. Please enter a valid number."
ERR_NOT_POSITIVE == "Amount must be greater than 0."
ERR_TOO_HIGH == "Amount seems too high. Please check and try again."
ERR_NO_DESCRIPTION == "Please provide a description for your expense."
ERR_TOO_LONG == "Description is too long. Please keep it under 100 characters."

Failure(error) == <<None, None, error>>

\* a variant that leaves the comma in place
ReplaceCommaSkipped(t) == t

\* amount_str.replace: every comma becomes a point
ReplaceComma(t) == [i \in 1..Len(t) |-> IF t[i] = "," THEN "." ELSE t[i]]

\* category.strip()
CleanCategory(category) == Strip(category)

\* a variant that checks the category before the amount
ValidateParsedCategoryFirst(amount, category) ==
    LET c == CleanCategory(category)
    IN  IF c = <<>> THEN Failure(ERR_NO_DESCRIPTION)
        ELSE IF Len(c) > MAX_CATEGORY_LEN THEN Failure(ERR_TOO_LONG)
        ELSE IF amount = Zero THEN Failure(ERR_NOT_POSITIVE)
        ELSE IF GreaterThanInt(amount, MAX_AMOUNT) THEN Failure(ERR_TOO_HIGH)
        ELSE <<Some(amount), Some(c), "">>

\* a variant without the length check on the category
ValidateParsedNoLengthCheck(amount, category) ==
    IF amount = Zero THEN Failure(ERR_NOT_POSITIVE)
    ELSE IF GreaterThanInt(amount, MAX_AMOUNT) THEN Failure(ERR_TOO_HIGH)
    ELSE LET c == CleanCategory(category)
         IN  IF c = <<>> THEN Failure(ERR_NO_DESCRIPTION)
             ELSE <<Some(amount), Some(c), "">>

\* the checks on the converted amount and the category, and the success return
ValidateParsed(amount, category) ==
    IF amount = Zero THEN Failure(ERR_NOT_POSITIVE)
    ELSE IF GreaterThanInt(amount, MAX_AMOUNT) THEN Failure(ERR_TOO_HIGH)
    ELSE LET c == CleanCategory(category)
         IN  IF c = <<>> THEN Failure(ERR_NO_DESCRIPTION)
             ELSE IF Len(c) > MAX_CATEGORY_LEN THEN Failure(ERR_TOO_LONG)
             ELSE <<Some(amount), Some(c), "">>

\* a variant that answers with the empty-message error while the web app
\* is unreachable
parse_expense_message_online(message) ==
    LET m == Strip(message)
    IN  IF m = <<>> \/ ~up THEN Failure(ERR_EMPTY)
        ELSE LET match == ReMatch(m)
             IN  IF match = None THEN Failure(ERR_FORMAT)
                 ELSE LET amount_str == ReplaceComma(match[1][1])
                      IN  IF ~IsFloatLiteral(amount_str) THEN Failure(ERR_AMOUNT)
                          ELSE ValidateParsed(Float(amount_str), match[1][2])

parse_expense_message(message) ==
    LET m == Strip(message)
    IN  IF m = <<>> THEN Failure(ERR_EMPTY)
        ELSE LET match == ReMatch(m)
             IN  IF match = None THEN Failure(ERR_FORMAT)
                 ELSE LET amount_str == ReplaceComma(match[1][1])
                      IN  IF ~IsFloatLiteral(amount_str) THEN Failure(ERR_AMOUNT)
                          ELSE ValidateParsed(Float(amount_str), match[1][2])

-----------------------------------------------------------------------------
(* The ledger: the Expenses worksheet and the Apps Script web app           *)
(* (setup_google_sheets.py, fix_apps_script.py), the HTTP client            *)
(* (sheets/client.py) and the facade (sheets/operations.py).                *)
(*                                                                         *)
(* Amounts are in cents.  A cell or a JSON value is a number or a text.    *)
(* The Date and Time columns of a row are left out.                        *)

Num(n) == [tag |-> "num", n |-> n, s |-> ""]
Text(t) == [tag |-> "text", n |-> 0, s |-> t]

\* JavaScript x + n for a number n: addition, or concatenation when x is a text
\* (any text that starts with the header cell is kept as one value)
JunkText == Text("Running Total...")
\* parseFloat(undefined), and every sum with it
NotANumber == [tag |-> "nan", n |-> 0, s |-> "NaN"]
JsAdd(x, n) ==
    IF x.tag = "num" THEN Num(x.n + n)
    ELSE IF x = NotANumber THEN NotANumber ELSE JunkText

HeaderRow == [amount |-> Text("Amount"), category |-> "Category",
              total |-> Text("Running Total")]

IsDataRow(row) == row.amount.tag = "num"

GetLastRow(sh) == Len(sh)

\* doPost, "Calculate running total": the last row's total plus the amount
\* when the sheet has a row below the header, the amount otherwise; the
\* fixed script reads (lastTotal || 0)
RunningTotal(sh, amount, fixed) ==
    IF GetLastRow(sh) > 1
    THEN LET lastTotal == sh[GetLastRow(sh)].total
         IN  IF fixed /\ lastTotal \in {Num(0), Text("")}
             THEN JsAdd(Num(0), amount)
             ELSE JsAdd(lastTotal, amount)
    ELSE Num(amount)

\* the JSON bodies doPost returns
OkResponse(amount, category, runningTotal) ==
    [success |-> TRUE, message |-> <<"Logged $", amount, " for ", category>>,
     runningTotal |-> runningTotal, error |-> ""]

ErrorResponse(error) ==
    [success |-> FALSE, message |-> <<>>, runningTotal |-> Num(0), error |-> error]

\* a variant that reads the total under the key of its own result
ClientLogResultWrongKey(result) ==
    IF result.success
    THEN [success |-> TRUE, message |-> result.message, running_total |-> Num(0)]
    ELSE [success |-> FALSE, message |-> <<"Apps Script error: ", result.error>>,
          running_total |-> Num(0)]

\* SimpleSheetsClient.log_expense on a 200 response with the JSON body result
ClientLogResult(result) ==
    IF result.success
    THEN [success |-> TRUE, message |-> result.message,
          running_total |-> result.runningTotal]
    ELSE [success |-> FALSE, message |-> <<"Apps Script error: ", result.error>>,
          running_total |-> Num(0)]

\* SimpleSheetsClient.log_expense on a response with another status
ClientHttpError(status) ==
    [success |-> FALSE, message |-> <<"HTTP error ", status>>, running_total |-> Num(0)]

\* SimpleSheetsClient.log_expense when requests.post raises
ClientRequestFailed(e) ==
    [success |-> FALSE, message |-> <<"Request failed: ", e>>, running_total |-> Num(0)]

\* a variant that adds the amount to the total it is given
OpsLogExpenseAddsAmount(result, amount, category) ==
    IF result.success
    THEN <<TRUE, <<"Logged $", amount, " for ", category, ". Running total: $",
                   result.running_total>>, JsAdd(result.running_total, amount)>>
    ELSE <<FALSE, <<"Failed to log expense: ">> \o result.message, Num(0)>>

\* SheetOperations.log_expense, given the client's result: (success, message,
\* running_total).  Formatting a running total that is no number with :.2f
\* raises, which the except clause turns into a failure.
OpsLogExpense(result, amount, category) ==
    IF result.success
    THEN IF result.running_total.tag = "num"
         THEN <<TRUE, <<"Logged $", amount, " for ", category, ". Running total: $",
                        result.running_total>>, result.running_total>>
         ELSE <<FALSE, <<"Error logging expense: ", "Unknown format code 'f'">>, Num(0)>>
    ELSE <<FALSE, <<"Failed to log expense: ">> \o result.message, Num(0)>>

MaxRequests == 2
Amounts == {250, 660}
Categories == {"food"}
HttpErrorStatuses == {500}

Requests == 1..MaxRequests

UnusedRequest ==
    [pc |-> "unused", amount |-> 0, category |-> "", runningTotal |-> Num(0),
     response |-> None]

LedgerIdle ==
    /\ script = "setup"
    /\ sheet = <<>>
    /\ req = [r \in Requests |-> UnusedRequest]
    /\ call = None
    /\ calls = <<>>

LedgerInit ==
    /\ script \in {"setup", "fixed"}
    /\ sheet = <<>>
    /\ req = [r \in Requests |-> UnusedRequest]
    /\ call = None
    /\ calls = <<>>
    /\ msg = <<>>
    /\ ret = <<>>
    /\ BotIdle

\* the number of the next request
NextRequest == Len(calls) + 1

Returned(r, amount, category, outcome, response, client) ==
    [r |-> r, amount |-> amount, category |-> category, outcome |-> outcome,
     response |-> response, client |-> client,
     ops |-> OpsLogExpense(client, amount, category)]

\* log_expense(amount, category): requests.post delivers the request and the
\* caller blocks on the response
ClientSend(amount, category) ==
    /\ call = None
    /\ NextRequest <= MaxRequests
    /\ call' = Some(NextRequest)
    /\ req' = [req EXCEPT ![NextRequest] =
                  [pc |-> "headerCheck", amount |-> amount, category |-> category,
                   runningTotal |-> Num(0), response |-> None]]
    /\ UNCHANGED <<script, sheet, calls>>
    /\ UNCHANGED parserVars
    /\ UNCHANGED facadeVars
    /\ UNCHANGED botVars

\* log_expense(amount, category) when requests.post raises before the request
\* reaches the script (connection refused), or a status other than 200 comes
\* back without the script having run
ClientSendFails(amount, category, kind) ==
    /\ call = None
    /\ NextRequest <= MaxRequests
    /\ \E status \in HttpErrorStatuses :
          calls' = Append(calls,
             Returned(NextRequest, amount, category, kind, None,
                      IF kind = "http" THEN ClientHttpError(status)
                      ELSE ClientRequestFailed("ConnectionError")))
    /\ UNCHANGED <<script, sheet, req, call>>
    /\ UNCHANGED parserVars
    /\ UNCHANGED facadeVars
    /\ UNCHANGED botVars

\* doPost: if (sheet.getLastRow() === 0)
BackendHeaderCheck(r) ==
    /\ req[r].pc = "headerCheck"
    /\ req' = [req EXCEPT ![r].pc =
                  IF GetLastRow(sheet) = 0 THEN "headerAppend" ELSE "total"]
    /\ UNCHANGED <<script, sheet, call, calls>>
    /\ UNCHANGED parserVars
    /\ UNCHANGED facadeVars
    /\ UNCHANGED botVars

\* doPost: sheet.appendRow(["Date", "Time", "Amount", "Category", "Running Total"])
BackendHeaderAppend(r) ==
    /\ req[r].pc = "headerAppend"
    /\ sheet' = Append(sheet, HeaderRow)
    /\ req' = [req EXCEPT ![r].pc = "total"]
    /\ UNCHANGED <<script, call, calls>>
    /\ UNCHANGED parserVars
    /\ UNCHANGED facadeVars
    /\ UNCHANGED botVars

\* doPost: the running total from the last row as it is now.  (Reading
\* getLastRow() and the cell in two steps gives no other value: rows are
\* only appended and never changed.)
BackendTotal(r) ==
    /\ req[r].pc = "total"
    /\ req' = [req EXCEPT ![r].pc = "append",
                          ![r].runningTotal =
                              RunningTotal(sheet, req[r].amount, script = "fixed")]
    /\ UNCHANGED <<script, sheet, call, calls>>
    /\ UNCHANGED parserVars
    /\ UNCHANGED facadeVars
    /\ UNCHANGED botVars

\* doPost: sheet.appendRow([date, time, parseFloat(amount), category, runningTotal])
BackendAppend(r) ==
    /\ req[r].pc = "append"
    /\ sheet' = Append(sheet, [amount |-> Num(req[r].amount),
                               category |-> req[r].category,
                               total |-> req[r].runningTotal])
    /\ req' = [req EXCEPT ![r].pc = "format"]
    /\ UNCHANGED <<script, call, calls>>
    /\ UNCHANGED parserVars
    /\ UNCHANGED facadeVars
    /\ UNCHANGED botVars

\* doPost: the number formats and column widths, then the response.  A
\* spreadsheet service error here (throws) reaches the catch clause of the
\* setup script, which answers success false; the fixed script logs it and
\* goes on.
BackendFormat(r, throws) ==
    /\ req[r].pc = "format"
    /\ req' = [req EXCEPT ![r].pc = "responded",
                          ![r].response =
                              IF throws /\ script = "setup"
                              THEN Some(ErrorResponse("Exception: Service error: Spreadsheets"))
                              ELSE Some(OkResponse(req[r].amount, req[r].category,
                                                   req[r].runningTotal))]
    /\ UNCHANGED <<script, sheet, call, calls>>
    /\ UNCHANGED parserVars
    /\ UNCHANGED facadeVars
    /\ UNCHANGED botVars

\* the response arrives: log_expense returns
ClientReceive ==
    /\ call # None
    /\ LET r == call[1]
       IN  /\ req[r].pc = "responded"
           /\ calls' = Append(calls,
                 Returned(r, req[r].amount, req[r].category, "answered",
                          req[r].response, ClientLogResult(req[r].response[1])))
    /\ call' = None
    /\ UNCHANGED <<script, sheet, req>>
    /\ UNCHANGED parserVars
    /\ UNCHANGED facadeVars
    /\ UNCHANGED botVars

\* no response within timeout=10: requests.post raises ReadTimeout and
\* log_expense returns; the script goes on running
ClientTimeout ==
    /\ call # None
    /\ LET r == call[1]
       IN  calls' = Append(calls,
              Returned(r, req[r].amount, req[r].category, "timeout", None,
                       ClientRequestFailed("ReadTimeout")))
    /\ call' = None
    /\ UNCHANGED <<script, sheet, req>>
    /\ UNCHANGED parserVars
    /\ UNCHANGED facadeVars
    /\ UNCHANGED botVars

LedgerNext ==
    \/ \E a \in Amounts, c \in Categories : ClientSend(a, c)
    \/ \E a \in Amounts, c \in Categories, k \in {"connection", "http"} :
          ClientSendFails(a, c, k)
    \/ \E r \in Requests : BackendHeaderCheck(r)
    \/ \E r \in Requests : BackendHeaderAppend(r)
    \/ \E r \in Requests : BackendTotal(r)
    \/ \E r \in Requests : BackendAppend(r)
    \/ \E r \in Requests, throws \in BOOLEAN : BackendFormat(r, throws)
    \/ ClientReceive
    \/ ClientTimeout

SpecLedger == LedgerInit /\ [][LedgerNext]_vars

-----------------------------------------------------------------------------
(* One request at a time: doPost from the parsed body to the response, for  *)
(* the two payload shapes of SimpleSheetsClient (log_expense and            *)
(* call_apps_script_function).                                              *)

MaxRows == 4

\* call_apps_script_function: payload = {'action': function_name, **params}
NamedPayloads ==
    { [action |-> "getMonthlyStats", month |-> "current"],
      [action |-> "getExpenseDataForAnalysis", period |-> "monthly"],
      [action |-> "logAIAnalysis", analysisData |-> "summary"] }

\* log_expense: payload = {'amount': amount, 'category': category}
ExpensePayloads == [amount : Amounts, category : Categories]

\* const { amount, category } = data, and what !x and parseFloat(x) make of
\* a key the body does not have
Has(data, key) == key \in DOMAIN data
Falsy(data, key) ==
    \/ ~Has(data, key)
    \/ data[key] = (IF key = "amount" THEN 0 ELSE "")
parseFloat(data) == IF Has(data, "amount") THEN Num(data.amount) ELSE NotANumber
Shown(data, key) == IF Has(data, key) THEN data[key] ELSE "undefined"

\* doPost of the script scr on the sheet sh with the parsed body data: the
\* sheet it leaves and the body it answers.  fault names the spreadsheet
\* call that throws, if one does: appendRow of the expense row (a row with
\* an undefined cell may be refused) or the formatting after it.
doPost(scr, sh, data, fault) ==
    IF scr = "fixed" /\ (Falsy(data, "amount") \/ Falsy(data, "category"))
    THEN [sheet |-> sh, response |-> ErrorResponse("Error: Missing amount or category")]
    ELSE LET sh1 == IF GetLastRow(sh) = 0 THEN <<HeaderRow>> ELSE sh
             amount == parseFloat(data)
             runningTotal ==
                 IF Has(data, "amount")
                 THEN RunningTotal(sh1, data.amount, scr = "fixed")
                 ELSE NotANumber
             row == [amount |-> amount,
                     category |-> IF Has(data, "category") THEN data.category ELSE "",
                     total |-> runningTotal]
         IN  IF fault = "appendRow"
             THEN [sheet |-> sh1,
                   response |-> ErrorResponse("Exception: Service error: Spreadsheets")]
             ELSE [sheet |-> Append(sh1, row),
                   response |->
                       IF fault = "format" /\ scr = "setup"
                       THEN ErrorResponse("Exception: Service error: Spreadsheets")
                       ELSE OkResponse(Shown(data, "amount"), Shown(data, "category"),
                                       runningTotal)]

\* requests.post(apps_script_url, json=payload) answered by doPost
RequestsPost(payload, fault) ==
    /\ GetLastRow(sheet) < MaxRows
    /\ LET done == doPost(script, sheet, payload, fault)
       IN  /\ sheet' = done.sheet
           /\ facade' = [NoCall EXCEPT !.op = "doPost", !.arg = Some(payload),
                                       !.returned = Some(done.response)]
    /\ UNCHANGED <<script, req, call, calls>>
    /\ UNCHANGED parserVars
    /\ UNCHANGED botVars

\* SimpleSheetsClient.log_expense reaching the script
PostExpense(payload, fault) ==
    /\ payload \in ExpensePayloads
    /\ RequestsPost(payload, fault)

\* SimpleSheetsClient.call_apps_script_function reaching the script
PostNamedAction(payload, fault) ==
    /\ payload \in NamedPayloads
    /\ RequestsPost(payload, fault)

ScriptNext ==
    \/ \E payload \in ExpensePayloads, fault \in {"none", "format"} :
          PostExpense(payload, fault)
    \/ \E payload \in NamedPayloads, fault \in {"none", "appendRow"} :
          PostNamedAction(payload, fault)

SpecScript == LedgerInit /\ [][ScriptNext]_vars

-----------------------------------------------------------------------------
(* The messages the parser is checked on: every text of at most MaxLen      *)
(* characters over Alphabet, and the boundary messages.                     *)

MaxLen == 5
Alphabet == {"0", "5", ".", ",", " ", "a"}

ShortMessages == UNION {[1..n -> Alphabet] : n \in 0..MaxLen}

Food == <<"f", "o", "o", "d">>
Rent == <<"r", "e", "n", "t">>

BoundaryMessages ==
    { <<"6", ".", "6", "0", " ">> \o Food,
      <<"6", ",", "6", "0", " ">> \o Food,
      <<"1", "2", "5", ".", "0", "0", " ", "G", "a", "s">>,
      <<"9", ".", "7", "0", " ", "C", "o", "f", "f", "e", "e", " ", "a", "t", " ", "X">>,
      <<" ", "6", ".", "6", "0", " ", " ">> \o Food \o <<"\n">>,
      <<"6", "\t">> \o Food,
      Food,
      <<"a", "b", "c", " ">> \o Food,
      <<"-", "5", ".", "0", "0", " ">> \o Food,
      <<"-", "6", ",", "6", "0", " ">> \o Food,
      <<"-", "5", " ", "a">>,
      <<"0", ".", "0", "0", " ">> \o Food,
      <<"5", " ", "a", "\n", "b">>,
      MAX_AMOUNT \o <<" ">> \o Rent,
      MAX_AMOUNT \o <<".", "0", "0", " ">> \o Rent,
      MAX_AMOUNT \o <<".", "0", "1", " ">> \o Rent,
      <<"1", "0", "0", "0", "0", "0", "1", ".", "0", "0", " ">> \o Rent,
      <<"9", "9", "9", "9", "9", "9", ".", "9", "9", " ">> \o Rent,
      MAX_AMOUNT \o <<".">> \o Rep("0", 11) \o <<"1", " ">> \o Rent,
      <<"0", ".">> \o Rep("0", 400) \o <<"1", " ">> \o Food,
      <<"0", ".", "0", "1", " ">> \o Food,
      <<"5", " ">> \o Rep("a", 100),
      <<"5", " ">> \o Rep("a", 101),
      <<"5", " ">> \o Rep("a", 99) \o <<" ", "b">>,
      <<"0", " ">> \o Rep("a", 101),
      <<"1", "0", "0", "0", "0", "0", "1", " ">> \o Rep("a", 101),
      <<"a", " ">> \o Rep("a", 101) }

Messages == ShortMessages \cup BoundaryMessages

ParserInit ==
    /\ msg \in Messages
    /\ ret = <<>>
    /\ LedgerIdle
    /\ BotIdle

\* one call parse_expense_message(msg)
Parse ==
    /\ ret = <<>>
    /\ ret' = parse_expense_message(msg)
    /\ UNCHANGED msg
    /\ UNCHANGED ledgerVars
    /\ UNCHANGED botVars
    /\ UNCHANGED facadeVars

ParserNext == Parse

SpecParser == ParserInit /\ [][ParserNext]_vars

-----------------------------------------------------------------------------
(* The bot: bot/handlers.py and bot/ai_analysis.py.                         *)
(*                                                                         *)
(* Updates are handled one at a time.  What a handler does is recorded in  *)
(* run.trace, in order: the liveness probe, the POSTs to the web app, the  *)
(* construction of the analyzer, the model calls and the replies.  The web *)
(* app and the model are the environment: what they answer is drawn from   *)
(* the answers the client code distinguishes.                              *)

Event(kind, what) == [kind |-> kind, what |-> what, e |-> None]
Probe(ok) == Event("probe", IF ok THEN "ok" ELSE "failed")
Post(action) == Event("post", action)
PostLog(amount, category) ==
    [kind |-> "post", what |-> "log_expense", e |-> None,
     amount |-> amount, category |-> category]
Construct(ok) == Event("construct", IF ok THEN "ok" ELSE "failed")
ModelCall(flow) == Event("llm", flow)
Reply(text) == Event("reply", text)
ReplyError(text, e) == [kind |-> "reply", what |-> text, e |-> Some(e)]

ERROR_SHEETS_API == "Error connecting to Google Sheets. Please try again later."
ERROR_INVALID_FORMAT == "Invalid format. Please use: amount category (e.g., 6.60 food)"

\* SimpleSheetsClient.test_connection: a GET that is answered with 200
is_connected == up

\* what requests.post can give for a POST with an action key: an exception,
\* a status other than 200, or 200 with a JSON body.  The bodies: the data
\* asked for; what the setup script answers to every POST; rows without the
\* amount and description fields; the two fields as columns without a row;
\* what the fixed script answers to a POST without amount and category.
JsonBody(success, message, error, data) ==
    [success |-> success, message |-> message, error |-> error, data |-> data]

JsonBodies ==
    { JsonBody(TRUE, Some(<<"Retrieved">>), None, "rows"),
      JsonBody(TRUE, Some(<<"Logged $undefined for undefined">>), None, "missing"),
      JsonBody(TRUE, Some(<<"Retrieved">>), None, "nocolumns"),
      JsonBody(TRUE, Some(<<"Retrieved">>), None, "norows"),
      JsonBody(FALSE, None, Some(<<"Error: Missing amount or category">>), "missing") }

NoBody == JsonBody(FALSE, None, None, "missing")

HttpResponse(kind, status, body) == [kind |-> kind, status |-> status, body |-> body]

ConnectionFailed == HttpResponse("raise", 0, NoBody)

HttpResponses(isUp) ==
    IF isUp
    THEN {HttpResponse("json", 200, b) : b \in JsonBodies}
         \cup {HttpResponse("http", st, NoBody) : st \in HttpErrorStatuses}
         \cup {ConnectionFailed}
    ELSE {ConnectionFailed}

\* SimpleSheetsClient.call_apps_script_function: the body as it is on a 200,
\* a failure with the status or the exception text otherwise.  A 200 whose
\* body is no JSON makes response.json() raise: a RequestException with
\* the requests library of today ("notjson"), a ValueError with an older
\* one ("notjson_legacy")
call_apps_script_function(response) ==
    CASE response.kind = "json" -> response.body
      [] response.kind = "http" ->
            JsonBody(FALSE, Some(<<"HTTP error ", response.status>>), None, "missing")
      [] response.kind = "raise" ->
            JsonBody(FALSE, Some(<<"Request failed: ", "ConnectionError">>), None, "missing")
      [] response.kind = "notjson" ->
            JsonBody(FALSE, Some(<<"Request failed: ", "JSONDecodeError">>), None, "missing")
      [] response.kind = "notjson_legacy" ->
            JsonBody(FALSE, Some(<<"Unexpected error: ", "JSONDecodeError">>), None,
                     "missing")

\* dict.get(key, default) on an optional value
Get(value, default) == IF value = None THEN default ELSE value[1]

\* SheetOperations.get_monthly_stats for "current" and "annual", given the
\* client's result: (success, message)
get_monthly_stats(result) ==
    IF result.success
    THEN <<TRUE, Get(result.message, <<"Statistics retrieved successfully">>)>>
    ELSE <<FALSE, Get(result.message, <<"Failed to get statistics">>)>>

\* SheetOperations.get_expense_data_for_analysis: (success, message, data)
get_expense_data_for_analysis(result) ==
    IF result.success
    THEN <<TRUE, Get(result.message, <<"Retrieved">>),
           IF result.data = "missing" THEN "empty" ELSE result.data>>
    ELSE <<FALSE, Get(result.message, <<"Failed to get expense data">>), "empty">>

\* SheetOperations.log_ai_analysis
log_ai_analysis(result) == result.success

-----------------------------------------------------------------------------
(* MistralAnalyzer (bot/ai_analysis.py).                                    *)
(*                                                                         *)
(* A call returns a value or raises an exception; either way it may have   *)
(* written entries to the error log.  calls counts its model calls.        *)

\* an exception: its type and message; a JSONDecodeError also holds the
\* document that did not parse
Error(type, text) == [type |-> type, text |-> text, doc |-> None]
DecodeError(text, doc) == [type |-> "JSONDecodeError", text |-> text, doc |-> Some(doc)]
LogEntry(text, e) == [text |-> text, e |-> e]

Return(v, log, n) ==
    [ok |-> TRUE, value |-> v, error |-> None, log |-> log, calls |-> n]
Raise(e, log, n) ==
    [ok |-> FALSE, value |-> <<>>, error |-> Some(e), log |-> log, calls |-> n]

\* except Exception as e: logger.error(text + str(e)); raise
Logged(out, text) ==
    IF out.ok THEN out
    ELSE [out EXCEPT !.log = Append(@, LogEntry(text, out.error[1]))]

\* a variant that hands on what it was given when there are no expenses
extract_expense_data_no_sample(got) ==
    Logged(IF ~got[1]
           THEN Raise(Error("ValueError", <<"Failed to get expense data: ">> \o got[2]),
                      <<>>, 0)
           ELSE IF got[3] \in {"empty", "nocolumns", "norows"} THEN Return("empty", <<>>, 0)
           ELSE Return("rows", <<>>, 0),
           "Error extracting expense data: ")

\* _extract_expense_data, given what the facade returned: the frame of the
\* expenses; the sample expenses when the data is falsy (an empty list) or
\* the frame lacks the amount or the description column; a frame without
\* rows when the data is an object of empty amount and description columns;
\* or a ValueError with the facade's message
extract_expense_data(got) ==
    Logged(IF ~got[1]
           THEN Raise(Error("ValueError", <<"Failed to get expense data: ">> \o got[2]),
                      <<>>, 0)
           ELSE IF got[3] \in {"empty", "nocolumns"} THEN Return("sample", <<>>, 0)
           ELSE IF got[3] = "norows" THEN Return("empty", <<>>, 0)
           ELSE Return("rows", <<>>, 0),
           "Error extracting expense data: ")

\* what client.chat can give: an exception, or a text.  A text is a sequence
\* of tokens: a brace, prose, the body of a JSON object ("json") or something
\* that is no such body ("junk").  categories and patterns are what the JSON
\* object holds under those keys (for stage 1, a list of categories)
MaxCategories == 2
Counts == {1, 3}
Stage1Patterns == {<<>>, <<"guess">>}

\* the values json.loads gives for the fields of an entry: a number (in
\* tenths), a str (its characters) or None.  A record with the keys of an
\* entry is the dict of that entry.
JNumber(tenths) == [type |-> "number", tenths |-> tenths]
JString(chars) == [type |-> "str", chars |-> chars]
JNull == [type |-> "NoneType"]

\* cat_data.get(key, default)
Field(cat_data, key, default) ==
    IF key \in DOMAIN cat_data THEN cat_data[key] ELSE default

\* the value of a run of decimal digits
RECURSIVE DigitsValue(_)
DigitsValue(ds) ==
    IF ds = <<>> THEN 0 ELSE 10 * DigitsValue(SubSeq(ds, 1, Len(ds) - 1)) + DigitVal(ds[Len(ds)])

\* the decimal digits of a natural number
CharOfDigit == <<"0", "1", "2", "3", "4", "5", "6", "7", "8", "9">>
RECURSIVE DigitsOf(_)
DigitsOf(n) ==
    IF n < 10 THEN <<CharOfDigit[n + 1]>>
    ELSE Append(DigitsOf(n \div 10), CharOfDigit[(n % 10) + 1])

AllDigits(ds) == ds # <<>> /\ \A i \in 1..Len(ds) : IsDigit(ds[i])

\* float(x), in tenths: a number as it is; a str that is a decimal numeral
\* (digits, or digits, a point and one digit) as its value; ValueError for
\* another str, TypeError for None
float(x) ==
    CASE x.type = "number" -> Return(x.tenths, <<>>, 0)
      [] x.type = "str" ->
            LET n == Len(x.chars)
            IN  IF AllDigits(x.chars) THEN Return(10 * DigitsValue(x.chars), <<>>, 0)
                ELSE IF n >= 3 /\ x.chars[n - 1] = "." /\ AllDigits(SubSeq(x.chars, 1, n - 2))
                        /\ IsDigit(x.chars[n])
                THEN Return(10 * DigitsValue(SubSeq(x.chars, 1, n - 2)) + DigitVal(x.chars[n]),
                            <<>>, 0)
                ELSE Raise(Error("ValueError", <<"could not convert string to float: ">>
                                               \o x.chars), <<>>, 0)
      [] x.type = "NoneType" ->
            Raise(Error("TypeError",
                        <<"float() argument must be a string or a real number">>), <<>>, 0)

\* int(x): a number is truncated; a str has to be a run of digits
int(x) ==
    CASE x.type = "number" -> Return(x.tenths \div 10, <<>>, 0)
      [] x.type = "str" ->
            IF AllDigits(x.chars) THEN Return(DigitsValue(x.chars), <<>>, 0)
            ELSE Raise(Error("ValueError", <<"invalid literal for int() with base 10: ">>
                                           \o x.chars), <<>>, 0)
      [] x.type = "NoneType" ->
            Raise(Error("TypeError",
                        <<"int() argument must be a string, a bytes-like object ",
                          "or a real number">>), <<>>, 0)

\* a variant that takes the defaults of all fields when one field is missing
ExpenseCategoryAllOrNothing(cat_data) ==
    LET whole == DOMAIN cat_data
                 = {"name", "total_amount", "count", "descriptions", "patterns"}
        total_amount == IF whole THEN float(cat_data.total_amount) ELSE Return(0, <<>>, 0)
        count == IF whole THEN int(cat_data.count) ELSE Return(0, <<>>, 0)
    IN  IF ~total_amount.ok THEN total_amount
        ELSE IF ~count.ok THEN count
        ELSE Return([name |-> IF whole THEN cat_data.name ELSE "Unknown",
                     total_amount |-> total_amount.value,
                     count |-> count.value,
                     descriptions |-> IF whole THEN cat_data.descriptions ELSE <<>>,
                     patterns |-> IF whole THEN cat_data.patterns ELSE <<>>], <<>>, 0)

\* ExpenseCategory(name=..., total_amount=float(...), count=int(...), ...)
\* for one entry of data['categories']
ExpenseCategory(cat_data) ==
    LET total_amount == float(Field(cat_data, "total_amount", JNumber(0)))
        count == int(Field(cat_data, "count", JNumber(0)))
    IN  IF ~total_amount.ok THEN total_amount
        ELSE IF ~count.ok THEN count
        ELSE Return([name |-> Field(cat_data, "name", "Unknown"),
                     total_amount |-> total_amount.value,
                     count |-> count.value,
                     descriptions |-> Field(cat_data, "descriptions", <<>>),
                     patterns |-> Field(cat_data, "patterns", <<>>)], <<>>, 0)

\* the loop over data.get('categories', []): the categories in the order of
\* the entries, or the exception of the first entry that raises
RECURSIVE categories_of(_)
categories_of(entries) ==
    IF entries = <<>> THEN Return(<<>>, <<>>, 0)
    ELSE LET before == categories_of(SubSeq(entries, 1, Len(entries) - 1))
             category == ExpenseCategory(entries[Len(entries)])
         IN  IF ~before.ok THEN before
             ELSE IF ~category.ok THEN category
             ELSE Return(Append(before.value, category.value), <<>>, 0)

\* an entry as the prompt of flow 1 asks for it
Category(i, count, patterns) ==
    [name |-> i, total_amount |-> JNumber(10 * count), count |-> JNumber(10 * count),
     descriptions |-> <<>>, patterns |-> patterns]

\* the lists of categories stage 1 can produce: any counts, and patterns
\* either as the prompt asks (none) or filled in by the model
CategoryLists ==
    UNION {{[i \in 1..n |-> Category(i, f[i], p)] :
               f \in [1..n -> Counts], p \in Stage1Patterns} :
              n \in 0..MaxCategories}

ModelAnswer(kind, text, categories, patterns) ==
    [kind |-> kind, text |-> text, categories |-> categories, patterns |-> patterns]

NoBraces == <<"prose">>
OnlyOpen == <<"{", "prose">>
CloseBeforeOpen == <<"}", "prose", "{">>
JunkInBraces == <<"prose", "{", "junk", "}">>
JsonInProse == <<"prose", "{", "json", "}", "prose">>

ModelRaises == ModelAnswer("raise", <<>>, <<>>, <<>>)
ModelSays(text) == ModelAnswer("text", text, <<>>, <<>>)

CategorizationAnswers ==
    {ModelRaises}
    \cup {ModelSays(t) : t \in {NoBraces, OnlyOpen, CloseBeforeOpen, JunkInBraces}}
    \cup {ModelAnswer("text", JsonInProse, cl, <<>>) : cl \in CategoryLists}

\* the prompt of flow 2 names one category; the patterns in the answer
\* to it are about that category
PatternsAbout(i) == Rep("pattern", i)
PatternAnswers(i) ==
    {ModelRaises, ModelSays(NoBraces), ModelSays(JunkInBraces),
     ModelAnswer("text", JsonInProse, <<>>, PatternsAbout(i))}

OtherAnswers ==
    {ModelRaises}
    \cup {ModelSays(t) : t \in {NoBraces, CloseBeforeOpen, JunkInBraces, JsonInProse}}

ModelError == Error("ResponseError", <<"model call failed">>)

\* _get_ai_response
get_ai_response(answer) ==
    Logged(IF answer.kind = "raise" THEN Raise(ModelError, <<>>, 1)
           ELSE Return(answer, <<>>, 1),
           "Error getting AI response: ")

\* str.find and str.rfind: the position of the first and of the last ch,
\* counted from 0, and -1 when there is none
find(text, ch) ==
    LET at == {i \in 1..Len(text) : text[i] = ch}
    IN  IF at = {} THEN -1 ELSE SetMin(at) - 1
rfind(text, ch) ==
    LET at == {i \in 1..Len(text) : text[i] = ch}
    IN  IF at = {} THEN -1 ELSE SetMax(at) - 1

\* response[json_start:json_end]
Slice(response, json_start, json_end) == SubSeq(response, json_start + 1, json_end)

\* json.loads: an object, or a JSONDecodeError that holds the document it
\* was given
json_loads(doc) ==
    IF doc = <<"{", "json", "}">> THEN Return("object", <<>>, 0)
    ELSE Raise(DecodeError(IF doc = <<>> THEN <<"Expecting value">>
                           ELSE <<"Expecting property name enclosed in double quotes">>,
                           doc),
               <<>>, 0)

\* a variant that takes a text without JSON for an empty list of categories
parse_categorization_response_lenient(answer) ==
    LET response == answer.text
        json_start == find(response, "{")
        json_end == rfind(response, "}") + 1
        data == json_loads(Slice(response, json_start, json_end))
    IN  IF json_start = -1 \/ json_end = 0 \/ ~data.ok THEN Return(<<>>, <<>>, 0)
        ELSE categories_of(answer.categories)

\* _parse_categorization_response
parse_categorization_response(answer) ==
    LET response == answer.text
        json_start == find(response, "{")
        json_end == rfind(response, "}") + 1
        data == json_loads(Slice(response, json_start, json_end))
    IN  Logged(IF json_start = -1 \/ json_end = 0
               THEN Raise(Error("ValueError", <<"No JSON found in response">>), <<>>, 0)
               ELSE IF ~data.ok THEN data
               ELSE categories_of(answer.categories),
               "Error parsing categorization response: ")

\* a variant of flow 1 that does not log where the error arose
categorize_expenses_flow_unlogged(answer) ==
    LET response == get_ai_response(answer)
    IN  IF ~response.ok THEN response
        ELSE LET parsed == parse_categorization_response(response.value)
             IN  [parsed EXCEPT !.calls = 1]

\* _categorize_expenses_flow: one model call, then the parse
categorize_expenses_flow(answer) ==
    LET response == get_ai_response(answer)
    IN  Logged(IF ~response.ok THEN response
               ELSE LET parsed == parse_categorization_response(response.value)
                    IN  [parsed EXCEPT !.calls = 1],
               "Error in categorization flow: ")

\* a variant that finds no patterns in any response
extract_patterns_from_response_none(answer) == Return(<<>>, <<>>, 0)

\* _extract_patterns_from_response: the patterns, or none when the text has
\* no braces or is no JSON (which is logged)
extract_patterns_from_response(answer) ==
    LET response == answer.text
        json_start == find(response, "{")
        json_end == rfind(response, "}") + 1
        data == json_loads(Slice(response, json_start, json_end))
    IN  IF json_start = -1 \/ json_end = 0 THEN Return(<<>>, <<>>, 0)
        ELSE IF ~data.ok
        THEN Return(<<>>, <<LogEntry("Error extracting patterns: ", data.error[1])>>, 0)
        ELSE Return(answer.patterns, <<>>, 0)

\* the categories flow 2 asks the model about, in order
asked_categories(categories) ==
    SelectSeq([i \in 1..Len(categories) |-> i], LAMBDA i : categories[i].count > 1)

\* a variant that empties the patterns of the categories it does not ask
\* about
analyze_patterns_flow_resets(categories, answers) ==
    LET asked == {i \in 1..Len(categories) : categories[i].count > 1}
        raised == {i \in asked : answers[i].kind = "raise"}
        last == IF raised = {} THEN Len(categories) ELSE SetMin(raised)
        done == SelectSeq([i \in 1..last |-> i],
                          LAMBDA i : i \in asked /\ i \notin raised)
        RECURSIVE Logs(_)
        Logs(n) == IF n = 0 THEN <<>>
                   ELSE Logs(n - 1) \o extract_patterns_from_response(answers[done[n]]).log
        made == Cardinality({i \in asked : i <= last})
    IN  Logged(IF raised # {}
               THEN LET response == get_ai_response(answers[last])
                    IN  Raise(response.error[1], Logs(Len(done)) \o response.log, made)
               ELSE Return([i \in 1..Len(categories) |->
                               [categories[i] EXCEPT !.patterns =
                                   IF i \in asked
                                   THEN extract_patterns_from_response(answers[i]).value
                                   ELSE <<>>]],
                           Logs(Len(done)), made),
               "Error in pattern analysis flow: ")

\* _analyze_patterns_flow: one model call for each category with count > 1,
\* in order, up to the first call that raises; answers[i] is what the model
\* gives for category i
analyze_patterns_flow(categories, answers) ==
    LET asked == {i \in 1..Len(categories) : categories[i].count > 1}
        raised == {i \in asked : answers[i].kind = "raise"}
        last == IF raised = {} THEN Len(categories) ELSE SetMin(raised)
        done == SelectSeq([i \in 1..last |-> i],
                          LAMBDA i : i \in asked /\ i \notin raised)
        RECURSIVE Logs(_)
        Logs(n) == IF n = 0 THEN <<>>
                   ELSE Logs(n - 1) \o extract_patterns_from_response(answers[done[n]]).log
        made == Cardinality({i \in asked : i <= last})
    IN  Logged(IF raised # {}
               THEN LET response == get_ai_response(answers[last])
                    IN  Raise(response.error[1], Logs(Len(done)) \o response.log, made)
               ELSE Return([i \in 1..Len(categories) |->
                               IF i \in asked
                               THEN [categories[i] EXCEPT !.patterns =
                                        extract_patterns_from_response(answers[i]).value]
                               ELSE categories[i]],
                           Logs(Len(done)), made),
               "Error in pattern analysis flow: ")

\* a variant in which a text that is no JSON is an error
parse_insights_response_strict(answer) ==
    LET response == answer.text
        json_start == find(response, "{")
        json_end == rfind(response, "}") + 1
        data == json_loads(Slice(response, json_start, json_end))
    IN  IF json_start = -1 \/ json_end = 0
        THEN Raise(Error("ValueError", <<"No JSON found in response">>), <<>>, 0)
        ELSE IF ~data.ok THEN data
        ELSE Return(<<<<"insight">>, <<"recommendation">>>>, <<>>, 0)

\* _parse_insights_response: (insights, recommendations), both empty when
\* the text has no braces or is no JSON (which is logged)
parse_insights_response(answer) ==
    LET response == answer.text
        json_start == find(response, "{")
        json_end == rfind(response, "}") + 1
        data == json_loads(Slice(response, json_start, json_end))
    IN  IF json_start = -1 \/ json_end = 0 THEN Return(<<<<>>, <<>>>>, <<>>, 0)
        ELSE IF ~data.ok
        THEN Return(<<<<>>, <<>>>>,
                    <<LogEntry("Error parsing insights response: ", data.error[1])>>, 0)
        ELSE Return(<<<<"insight">>, <<"recommendation">>>>, <<>>, 0)

\* _generate_insights_flow: one model call, then the parse
generate_insights_flow(answer) ==
    LET response == get_ai_response(answer)
    IN  Logged(IF ~response.ok THEN response
               ELSE LET parsed == parse_insights_response(response.value)
                    IN  [parsed EXCEPT !.calls = 1],
               "Error in insights generation flow: ")

-----------------------------------------------------------------------------
(* analyze_expenses, one step for each stage.  an.stage is the stage        *)
(* reached: Idle on entry, then DataExtracted, Categorized,                 *)
(* PatternsAnalyzed, InsightsGenerated, and Terminal when the result is     *)
(* built; Failed when an exception leaves the call, with an.from the stage  *)
(* it left from.                                                            *)

\* a variant in which flow 1 hands over to flow 3
StageAfterSkipsPatterns(stage) ==
    CASE stage = "Idle" -> "DataExtracted"
      [] stage = "DataExtracted" -> "PatternsAnalyzed"
      [] stage = "Categorized" -> "PatternsAnalyzed"
      [] stage = "PatternsAnalyzed" -> "InsightsGenerated"
      [] stage = "InsightsGenerated" -> "Terminal"

\* the statement sequence of analyze_expenses
StageAfter(stage) ==
    CASE stage = "Idle" -> "DataExtracted"
      [] stage = "DataExtracted" -> "Categorized"
      [] stage = "Categorized" -> "PatternsAnalyzed"
      [] stage = "PatternsAnalyzed" -> "InsightsGenerated"
      [] stage = "InsightsGenerated" -> "Terminal"

\* analyze_expenses after a stage returned or raised: on to the next stage,
\* or out through the except clause, which logs the exception and raises it
\* again
AfterStage(a, out) ==
    IF out.ok
    THEN [a EXCEPT !.stage = StageAfter(a.stage), !.log = @ \o out.log]
    ELSE [a EXCEPT !.stage = "Failed", !.from = a.stage, !.error = out.error,
                   !.log = @ \o out.log
                             \o <<LogEntry("Error in expense analysis: ", out.error[1])>>]

\* a variant of the sum that stops at the first category
SumAmountOfFirst(categories, n) ==
    IF n = 0 THEN 0 ELSE categories[1].total_amount

RECURSIVE SumAmount(_, _)
SumAmount(categories, n) ==
    IF n = 0 THEN 0 ELSE SumAmount(categories, n - 1) + categories[n].total_amount

RECURSIVE SumCount(_, _)
SumCount(categories, n) ==
    IF n = 0 THEN 0 ELSE SumCount(categories, n - 1) + categories[n].count

Analyzing == run.pc = "analyzing"

\* what the model answered in a flow (for flow 2: about which category)
Heard(flow, category, answer) == [flow |-> flow, category |-> category, answer |-> answer]

Traced(events) == run' = [run EXCEPT !.trace = @ \o events]

\* expenses_df = self._extract_expense_data(period), and the ValueError of
\* analyze_expenses itself when the frame is empty
ExtractExpenseDataFrom(response) ==
    /\ Analyzing
    /\ an.stage = "Idle"
    /\ LET df == extract_expense_data(get_expense_data_for_analysis(
                     call_apps_script_function(response)))
           out == IF df.ok /\ df.value = "empty"
                  THEN Raise(Error("ValueError", <<"No expense data found">>), <<>>, 0)
                  ELSE df
       IN  an' = [AfterStage(an, out) EXCEPT !.df = IF out.ok THEN out.value ELSE @]
    /\ Traced(<<Post("getExpenseDataForAnalysis")>>)
    /\ UNCHANGED <<up, ai_analyzer, tasks>>
    /\ UNCHANGED parserVars
    /\ UNCHANGED facadeVars
    /\ UNCHANGED ledgerVars

ExtractExpenseData == \E response \in HttpResponses(up) : ExtractExpenseDataFrom(response)

\* categories = self._categorize_expenses_flow(expenses_df)
CategorizeExpenses ==
    /\ Analyzing
    /\ an.stage = "DataExtracted"
    /\ \E answer \in CategorizationAnswers :
          LET out == categorize_expenses_flow(answer)
          IN  an' = [AfterStage(an, out) EXCEPT
                        !.categories = IF out.ok THEN Some(out.value) ELSE @,
                        !.heard = Append(@, Heard("categorize", 0, answer))]
    /\ Traced(<<ModelCall("categorize")>>)
    /\ UNCHANGED <<up, ai_analyzer, tasks>>
    /\ UNCHANGED parserVars
    /\ UNCHANGED facadeVars
    /\ UNCHANGED ledgerVars

\* categories = self._analyze_patterns_flow(categories)
AnalyzePatterns ==
    /\ Analyzing
    /\ an.stage = "Categorized"
    /\ \E answers \in {f \in [1..Len(an.categories[1]) ->
                                  UNION {PatternAnswers(i) : i \in 1..MaxCategories}] :
                             \A i \in DOMAIN f : f[i] \in PatternAnswers(i)} :
          LET out == analyze_patterns_flow(an.categories[1], answers)
              asked == asked_categories(an.categories[1])
          IN  /\ an' = [AfterStage(an, out) EXCEPT
                           !.categories = IF out.ok THEN Some(out.value) ELSE @,
                           !.heard = @ \o [k \in 1..out.calls |->
                                              Heard("patterns", asked[k], answers[asked[k]])]]
              /\ Traced([i \in 1..out.calls |-> ModelCall("patterns")])
    /\ UNCHANGED <<up, ai_analyzer, tasks>>
    /\ UNCHANGED parserVars
    /\ UNCHANGED facadeVars
    /\ UNCHANGED ledgerVars

\* the totals, then insights, recommendations = self._generate_insights_flow(...)
GenerateInsights ==
    /\ Analyzing
    /\ an.stage = "PatternsAnalyzed"
    /\ \E answer \in OtherAnswers :
          LET categories == an.categories[1]
              total_amount == SumAmount(categories, Len(categories))
              total_count == SumCount(categories, Len(categories))
              out == generate_insights_flow(answer)
          IN  an' = [AfterStage(an, out) EXCEPT
                        !.totals = Some(<<total_amount, total_count>>),
                        !.insights = IF out.ok THEN Some(out.value) ELSE @,
                        !.heard = Append(@, Heard("insights", 0, answer))]
    /\ Traced(<<ModelCall("insights")>>)
    /\ UNCHANGED <<up, ai_analyzer, tasks>>
    /\ UNCHANGED parserVars
    /\ UNCHANGED facadeVars
    /\ UNCHANGED ledgerVars

\* result = AnalysisResult(...); return result
ConstructResult ==
    /\ Analyzing
    /\ an.stage = "InsightsGenerated"
    /\ an' = [an EXCEPT
                 !.stage = StageAfter(an.stage),
                 !.result = Some([period |-> an.period,
                                  total_expenses |-> an.totals[1][1],
                                  total_transactions |-> an.totals[1][2],
                                  categories |-> an.categories[1],
                                  insights |-> an.insights[1][1],
                                  recommendations |-> an.insights[1][2]])]
    /\ UNCHANGED <<up, ai_analyzer, run, tasks>>
    /\ UNCHANGED parserVars
    /\ UNCHANGED facadeVars
    /\ UNCHANGED ledgerVars

-----------------------------------------------------------------------------
(* BotHandlers (bot/handlers.py).  A handler that runs no analysis is one   *)
(* step.  An AI handler is three: up to the call of analyze_expenses, the   *)
(* call itself (the stages above), and the rest of the handler.             *)

CanHandle == run.pc \in {"idle", "done"}

\* the handler of update op begins; run.down records whether the probe
\* fails at that moment
NewRun(op, pc, trace) == [op |-> op, pc |-> pc, down |-> ~up, trace |-> trace]

\* if not self.sheet_ops.is_connected(): reply ERROR_SHEETS_API; return
Unavailable == <<Probe(FALSE), Reply(ERROR_SHEETS_API)>>

Handle(op, trace) ==
    /\ CanHandle
    /\ run' = NewRun(op, "done", trace)
    /\ an' = NoAnalysis
    /\ UNCHANGED <<up, ai_analyzer, tasks>>
    /\ UNCHANGED parserVars
    /\ UNCHANGED facadeVars
    /\ UNCHANGED ledgerVars

total_command ==
    Handle("total", IF ~is_connected THEN Unavailable
                    ELSE <<Probe(TRUE), Reply("total")>>)

Months == {None, Some("current"), Some("annual"), Some("March")}

stats_command(month, response) ==
    Handle("stats",
           IF ~is_connected THEN Unavailable
           ELSE IF month \in {Some("current"), Some("annual")}
           THEN LET stats == get_monthly_stats(call_apps_script_function(response))
                IN  <<Probe(TRUE), Post("getMonthlyStats"),
                      Reply(IF stats[1] THEN "stats" ELSE "stats failed")>>
           ELSE <<Probe(TRUE), Reply("stats in the sheet")>>)

recent_command ==
    Handle("recent", IF ~is_connected THEN Unavailable
                     ELSE <<Probe(TRUE), Reply("recent")>>)

monthly_report_command ==
    Handle("monthly_report", IF ~is_connected THEN Unavailable
                             ELSE <<Probe(TRUE), Reply("monthly options")>>)

annual_report_command ==
    Handle("annual_report", IF ~is_connected THEN Unavailable
                            ELSE <<Probe(TRUE), Reply("annual options")>>)

\* what the web app can answer to a log POST, and SimpleSheetsClient.log_expense
\* on it
LogAnswers ==
    {[kind |-> "json", body |-> OkResponse(0, "", Num(660))],
     [kind |-> "json", body |-> OkResponse(0, "", JunkText)],
     [kind |-> "json", body |-> ErrorResponse("Exception: Service error: Spreadsheets")],
     [kind |-> "http", body |-> ErrorResponse("")],
     [kind |-> "raise", body |-> ErrorResponse("")]}

client_log_expense(answer) ==
    CASE answer.kind = "json" -> ClientLogResult(answer.body)
      [] answer.kind = "http" -> ClientHttpError(SetMin(HttpErrorStatuses))
      [] answer.kind = "raise" -> ClientRequestFailed("ReadTimeout")
      [] answer.kind = "notjson" -> ClientRequestFailed("JSONDecodeError")
      [] answer.kind = "notjson_legacy" ->
            [success |-> FALSE, message |-> <<"Unexpected error: ", "JSONDecodeError">>,
             running_total |-> Num(0)]

is_command(message) == Strip(message) # <<>> /\ Strip(message)[1] = "/"

\* the texts a user sends: an expense, a text without amount, a zero
\* amount, an amount with three decimals, and a description with markup
BotMessages ==
    { <<"6", ".", "6", "0", " ">> \o Food, Food, <<"0", " ">> \o Food,
      <<"6", ".", "6", "6", "6", " ">> \o Food,
      <<"5", " ", "<", "s", "c", "r", "i", "p", "t", ">">> }

\* parse_expense_message on the stripped text of each of these messages
ParsedBotMessages == [message \in BotMessages |-> parse_expense_message(Strip(message))]

\* a variant that logs without the connection check
handle_message_unprobed(message, answer) ==
    LET message_text == Strip(message)
        parsed == parse_expense_message(message_text)
        logged == OpsLogExpense(client_log_expense(answer), parsed[1][1], parsed[2][1])
    IN  Handle("message",
               IF is_command(message_text) THEN <<>>
               ELSE IF parsed[3] # "" THEN <<Reply(parsed[3])>>
               ELSE IF parsed[1][1] = Zero \/ parsed[2][1] = <<>>
               THEN <<Reply(ERROR_INVALID_FORMAT)>>
               ELSE <<PostLog(parsed[1][1], parsed[2][1])>>
                    \o (IF logged[1]
                        THEN <<Reply("logged")>>
                             \o (IF logged[3].n > 0 THEN <<Reply("suggestions")>> ELSE <<>>)
                        ELSE <<Reply("log failed")>>))

\* BotHandlers.handle_message on the text message, with the answer the web
\* app gives if the expense is posted
handle_message(message, answer) ==
    LET message_text == Strip(message)
        parsed == IF message \in BotMessages THEN ParsedBotMessages[message]
                  ELSE parse_expense_message(message_text)
        logged == OpsLogExpense(client_log_expense(answer), parsed[1][1], parsed[2][1])
    IN  Handle("message",
               IF is_command(message_text) THEN <<>>
               ELSE IF ~is_connected THEN Unavailable
               ELSE IF parsed[3] # "" THEN <<Probe(TRUE), Reply(parsed[3])>>
               ELSE IF parsed[1][1] = Zero \/ parsed[2][1] = <<>>
               THEN <<Probe(TRUE), Reply(ERROR_INVALID_FORMAT)>>
               ELSE <<Probe(TRUE), PostLog(parsed[1][1], parsed[2][1])>>
                    \o (IF logged[1]
                        THEN <<Reply("logged")>>
                             \o (IF logged[3].n > 0 THEN <<Reply("suggestions")>> ELSE <<>>)
                        ELSE <<Reply("log failed")>>))

\* an AI handler from "if self.ai_analyzer is None" to the call of
\* analyze_expenses(period); constructs tells whether MistralAnalyzer() returns
StartAnalysis(op, period, before, constructs) ==
    /\ CanHandle
    /\ IF ai_analyzer = None /\ ~constructs
       THEN /\ run' = NewRun(op, "done",
                         before \o <<Construct(FALSE),
                                     Reply("Failed to initialize AI analyzer.")>>)
            /\ an' = NoAnalysis
            /\ UNCHANGED ai_analyzer
       ELSE /\ run' = NewRun(op, "analyzing",
                         before
                         \o (IF ai_analyzer = None
                             THEN <<Construct(TRUE), Reply("Initializing AI analyzer...")>>
                             ELSE <<>>)
                         \o <<Reply("Starting AI Analysis")>>)
            /\ an' = [NoAnalysis EXCEPT !.period = period]
            /\ ai_analyzer' = Some("MistralAnalyzer")
    /\ UNCHANGED <<up, tasks>>
    /\ UNCHANGED parserVars
    /\ UNCHANGED facadeVars
    /\ UNCHANGED ledgerVars

analyze_monthly_command(constructs) ==
    IF ~is_connected THEN Handle("analyze_monthly", Unavailable)
    ELSE StartAnalysis("analyze_monthly", "monthly", <<Probe(TRUE)>>, constructs)

analyze_annual_command(constructs) ==
    IF ~is_connected THEN Handle("analyze_annual", Unavailable)
    ELSE StartAnalysis("analyze_annual", "annual", <<Probe(TRUE)>>, constructs)

\* _handle_simple_monthly_report and _handle_simple_annual_report
handle_simple_report(op, response) ==
    LET stats == get_monthly_stats(call_apps_script_function(response))
    IN  Handle(op, <<Post("getMonthlyStats"),
                     Reply(IF stats[1] THEN "Simple Total" ELSE "stats failed")>>)

CallbackData == {"monthly_simple", "monthly_ai", "annual_simple", "annual_ai", "other"}

handle_button_callback(callback_data, response, constructs) ==
    CASE callback_data = "monthly_simple" -> handle_simple_report(callback_data, response)
      [] callback_data = "monthly_ai" ->
            StartAnalysis(callback_data, "monthly", <<>>, constructs)
      [] callback_data = "annual_simple" -> handle_simple_report(callback_data, response)
      [] callback_data = "annual_ai" ->
            StartAnalysis(callback_data, "annual", <<>>, constructs)
      [] OTHER -> Handle(callback_data, <<Reply("Unknown option selected.")>>)

\* a variant that logs the analysis whether or not there is a result
AfterAnalyzeExpensesLogsAlways(op, a, logged) ==
    LET log == IF op \in {"monthly_ai", "annual_ai"} THEN <<Post("logAIAnalysis")>>
               ELSE <<>>
    IN  IF a.stage = "Failed"
        THEN log \o <<ReplyError("Error during AI analysis: ", a.error[1])>>
        ELSE IF op = "analyze_annual"
        THEN <<ReplyError("Error during AI analysis: ",
                          Error("AttributeError", <<"ai_analysis_report">>))>>
        ELSE log \o <<Reply("report")>>

\* the rest of an AI handler, after analyze_expenses returned or raised:
\* the report is formatted, a button handler logs the analysis to the
\* sheet, and the report is sent; an exception gives the error reply.
\* /analyze_annual calls self.ai_analysis_report, which BotHandlers
\* does not have.
AfterAnalyzeExpenses(op, a, logged) ==
    IF a.stage = "Failed"
    THEN <<ReplyError("Error during AI analysis: ", a.error[1])>>
    ELSE IF op = "analyze_annual"
    THEN <<ReplyError("Error during AI analysis: ",
                      Error("AttributeError", <<"ai_analysis_report">>))>>
    ELSE (IF op \in {"monthly_ai", "annual_ai"} THEN <<Post("logAIAnalysis")>> ELSE <<>>)
         \o <<Reply("report")>>

FinishAnalysis ==
    /\ Analyzing
    /\ an.stage \in {"Terminal", "Failed"}
    /\ \E response \in HttpResponses(up) :
          run' = [run EXCEPT
                     !.pc = "done",
                     !.trace = @ \o AfterAnalyzeExpenses(run.op, an,
                                      log_ai_analysis(call_apps_script_function(response)))]
    /\ UNCHANGED <<up, ai_analyzer, an, tasks>>
    /\ UNCHANGED parserVars
    /\ UNCHANGED facadeVars
    /\ UNCHANGED ledgerVars

\* the web app becomes unreachable, or reachable again
BackendChanges ==
    /\ up' = ~up
    /\ UNCHANGED <<ai_analyzer, run, an, tasks>>
    /\ UNCHANGED parserVars
    /\ UNCHANGED facadeVars
    /\ UNCHANGED ledgerVars

BotInit ==
    /\ BotIdle
    /\ LedgerIdle
    /\ msg = <<>>
    /\ ret = <<>>

\* what the web app can answer to a handler that posts to it; one answer
\* stands for all of them when the handler posts nothing
Answering(posts) == IF posts THEN HttpResponses(up) ELSE {ConnectionFailed}

BotNext ==
    \/ total_command
    \/ \E month \in Months :
          \E response \in Answering(month \in {Some("current"), Some("annual")}) :
             stats_command(month, response)
    \/ recent_command
    \/ \E constructs \in BOOLEAN : analyze_monthly_command(constructs)
    \/ \E constructs \in BOOLEAN : analyze_annual_command(constructs)
    \/ monthly_report_command
    \/ annual_report_command
    \/ \E callback_data \in CallbackData :
          \E response \in Answering(callback_data \in {"monthly_simple", "annual_simple"}),
             constructs \in IF callback_data \in {"monthly_ai", "annual_ai"}
                            THEN BOOLEAN ELSE {TRUE} :
             handle_button_callback(callback_data, response, constructs)
    \/ \E message \in BotMessages, answer \in LogAnswers : handle_message(message, answer)
    \/ ExtractExpenseData
    \/ CategorizeExpenses
    \/ AnalyzePatterns
    \/ GenerateInsights
    \/ ConstructResult
    \/ FinishAnalysis
    \/ BackendChanges

SpecBot == BotInit /\ [][BotNext]_vars

-----------------------------------------------------------------------------
(* The operations of the core called directly: the ledger client, the       *)
(* ledger facade and the analyzer, with any arguments a caller can pass     *)
(* and any answer of the web app and of the model.  facade is the last      *)
(* such call: its arguments, what the web app answered, the payloads that   *)
(* were posted, and what came back to the caller.                           *)

\* the JSON payload of a POST
Payload(action, amount, category) ==
    [action |-> action, amount |-> amount, category |-> category]

\* the arguments a caller can pass to log_expense: amounts that are zero,
\* in range and above the ceiling; categories that are empty, blank, a word,
\* and longer than the limit
CoreAmounts ==
    {Zero, Float(<<"6", ".", "6">>), Float(<<"1">> \o Rep("0", Len(MAX_AMOUNT)))}
CoreCategories == {<<>>, <<" ">>, Food, Rep("a", MAX_CATEGORY_LEN + 1)}

\* what the web app can answer to a log POST, a 200 without JSON included
CoreLogAnswers ==
    IF up
    THEN LogAnswers \cup {[kind |-> k, body |-> ErrorResponse("")] :
                             k \in {"notjson", "notjson_legacy"}}
    ELSE {a \in LogAnswers : a.kind = "raise"}

\* and to a POST with an action key
CoreResponses ==
    IF up
    THEN HttpResponses(up) \cup {HttpResponse(k, 200, NoBody) :
                                    k \in {"notjson", "notjson_legacy"}}
    ELSE HttpResponses(up)

NamedActions == {"getMonthlyStats", "getExpenseDataForAnalysis", "logAIAnalysis"}

\* no call of analyze_expenses is in progress
Direct == run.pc # "analyzing"

\* a call that returned (success, message) to its caller
Called(op, amount, category, response, posts, success, message) ==
    /\ Direct
    /\ facade' = [op |-> op, amount |-> amount, category |-> category,
                  response |-> response, posts |-> posts, success |-> success,
                  message |-> message, raised |-> FALSE, arg |-> <<>>,
                  returned |-> <<>>]
    /\ run' = NoRun
    /\ an' = NoAnalysis
    /\ UNCHANGED <<up, ai_analyzer, tasks>>
    /\ UNCHANGED parserVars
    /\ UNCHANGED ledgerVars

\* SheetOperations.validate_expense_data: (is_valid, error_message).  No
\* method of the facade and no handler calls it.
validate_expense_data(amount, category) ==
    IF amount = Zero THEN <<FALSE, "Amount must be greater than 0.">>
    ELSE IF GreaterThanInt(amount, MAX_AMOUNT)
    THEN <<FALSE, "Amount seems too high. Please check and try again.">>
    ELSE IF category = <<>> \/ Strip(category) = <<>>
    THEN <<FALSE, "Please provide a description for your expense.">>
    ELSE IF Len(Strip(category)) > MAX_CATEGORY_LEN
    THEN <<FALSE, "Description is too long. Please keep it under 100 characters.">>
    ELSE <<TRUE, "">>

\* SimpleSheetsClient.log_expense(amount, category)
ClientLogExpense ==
    \E amount \in CoreAmounts, category \in CoreCategories, answer \in CoreLogAnswers :
       LET result == client_log_expense(answer)
       IN  Called("client.log_expense", amount, category, answer,
                  <<Payload("log_expense", amount, category)>>,
                  result.success, result.message)

\* SheetOperations.log_expense(amount, category): the client is called with
\* the arguments as they are
OpsLogExpenseCall ==
    \E amount \in CoreAmounts, category \in CoreCategories, answer \in CoreLogAnswers :
       LET result == OpsLogExpense(client_log_expense(answer), amount, category)
       IN  Called("log_expense", amount, category, answer,
                  <<Payload("log_expense", amount, category)>>,
                  result[1], result[2])

\* SimpleSheetsClient.call_apps_script_function(action, params): what comes
\* back is a dict, message is its message key if it has one
ClientCall ==
    \E action \in NamedActions, response \in CoreResponses :
       LET result == call_apps_script_function(response)
       IN  Called("client.call_apps_script_function", Zero, <<>>, response,
                  <<Payload(action, Zero, <<>>)>>,
                  result.success, Get(result.message, <<>>))

\* SheetOperations.get_monthly_stats("current"), get_expense_data_for_analysis
\* and log_ai_analysis, which returns no message
NamedActionCall ==
    \E action \in NamedActions, response \in CoreResponses :
       LET result == call_apps_script_function(response)
           returned ==
               CASE action = "getMonthlyStats" -> get_monthly_stats(result)
                 [] action = "getExpenseDataForAnalysis" ->
                       get_expense_data_for_analysis(result)
                 [] action = "logAIAnalysis" -> <<log_ai_analysis(result), <<>>>>
       IN  Called(action, Zero, <<>>, response, <<Payload(action, Zero, <<>>)>>,
                  returned[1], returned[2])

\* SimpleSheetsClient.test_connection
TestConnection ==
    Called("test_connection", Zero, <<>>, [kind |-> "none"], <<>>, is_connected, <<>>)

\* analyzer.analyze_expenses(period) is called
AnalyzeExpensesCall ==
    /\ Direct
    /\ \E period \in {"monthly", "annual"} :
          an' = [NoAnalysis EXCEPT !.period = period]
    /\ run' = NewRun("analyze_expenses", "analyzing", <<>>)
    /\ facade' = [NoCall EXCEPT !.op = "analyze_expenses"]
    /\ ai_analyzer' = Some("MistralAnalyzer")
    /\ UNCHANGED <<up, tasks>>
    /\ UNCHANGED parserVars
    /\ UNCHANGED ledgerVars

\* a variant in which analyze_expenses returns a failure and raises nothing
analyze_expenses_returns(a) ==
    [success |-> a.stage = "Terminal", raised |-> FALSE,
     message |-> IF a.stage = "Failed" THEN a.error[1].text ELSE <<>>]

\* how analyze_expenses ends for its caller: return result, or the raise of
\* its except clause
analyze_expenses_ends(a) ==
    [success |-> a.stage = "Terminal", raised |-> a.stage = "Failed",
     message |-> IF a.stage = "Failed" THEN a.error[1].text ELSE <<>>]

\* analyze_expenses ends
AnalyzeExpensesEnds ==
    /\ Analyzing
    /\ run.op = "analyze_expenses"
    /\ an.stage \in {"Terminal", "Failed"}
    /\ LET end == analyze_expenses_ends(an)
       IN  facade' = [facade EXCEPT !.success = end.success, !.raised = end.raised,
                                    !.message = end.message]
    /\ run' = [run EXCEPT !.pc = "done"]
    /\ UNCHANGED <<up, ai_analyzer, an, tasks>>
    /\ UNCHANGED parserVars
    /\ UNCHANGED ledgerVars

CoreInit == BotInit

CoreNext ==
    \/ ClientLogExpense
    \/ OpsLogExpenseCall
    \/ ClientCall
    \/ NamedActionCall
    \/ TestConnection
    \/ AnalyzeExpensesCall
    \/ ExtractExpenseData
    \/ CategorizeExpenses
    \/ AnalyzePatterns
    \/ GenerateInsights
    \/ ConstructResult
    \/ AnalyzeExpensesEnds
    \/ BackendChanges

SpecCore == CoreInit /\ [][CoreNext]_vars

-----------------------------------------------------------------------------
(* The functions of the analyzer and of bot/utils.py that read and write    *)
(* nothing but their arguments, each called once on an argument: facade.arg *)
(* is the argument and facade.returned what the call returned or raised.    *)

\* the call op(arg), before it is made
CallOf(op, arg) == [NoCall EXCEPT !.op = op, !.arg = arg]

Pending(op) == facade.op = op /\ facade.returned = None

Returns(returned) ==
    /\ facade' = [facade EXCEPT !.returned = Some(returned)]
    /\ UNCHANGED botVars
    /\ UNCHANGED parserVars
    /\ UNCHANGED ledgerVars

\* the entries of data['categories'] in a stage-1 response: an entry with
\* any of the five keys missing, and an entry with all keys whose
\* total_amount or count is a numeral in a str, a fractional number, a str
\* that is no numeral, or null
MaxEntries == 2
WholeEntry ==
    [name |-> "Food", total_amount |-> JNumber(125), count |-> JNumber(10),
     descriptions |-> <<"coffee">>, patterns |-> <<"daily">>]
EntryKeys == DOMAIN WholeEntry
Entries ==
    {[key \in keys |-> WholeEntry[key]] : keys \in SUBSET EntryKeys}
    \cup {[WholeEntry EXCEPT !.total_amount = x] :
              x \in {JString(<<"1", "2", ".", "5">>), JString(<<"2", "0">>),
                     JString(<<"a">>), JNull}}
    \cup {[WholeEntry EXCEPT !.count = x] :
              x \in {JNumber(25), JString(<<"3">>), JString(<<"2", ".", "5">>), JNull}}
Stage1Entries == UNION {[1..n -> Entries] : n \in 0..MaxEntries}

\* self._parse_categorization_response(response) on a response that holds
\* a JSON object with these entries
ParseCategorizationCall ==
    /\ Pending("parse_categorization_response")
    /\ Returns(parse_categorization_response(
                   ModelAnswer("text", JsonInProse, facade.arg, <<>>)))


\* format_analysis_report.  A report is the sequence of its lines; a line
\* is what it shows and its text.  An amount is written with two decimals.
Line(kind, text) == [kind |-> kind, text |-> text]
Blank == Line("blank", <<>>)

\* f"{x:.2f}" for a number of tenths
TwoDecimals(tenths) ==
    DigitsOf(tenths \div 10) \o <<".", CharOfDigit[(tenths % 10) + 1], "0">>

\* str.title() on the period
Title(period) == IF period = "monthly" THEN "Monthly" ELSE "Annual"

\* the lines of the loop over category.patterns, result.insights and
\* result.recommendations
Bullets(kind, items) == [i \in 1..Len(items) |-> Line(kind, items[i])]

\* the loop over result.categories: the line of the category, its patterns
\* if it has any, and an empty line
RECURSIVE CategoryLines(_)
CategoryLines(categories) ==
    IF categories = <<>> THEN <<>>
    ELSE LET category == categories[Len(categories)]
         IN  CategoryLines(SubSeq(categories, 1, Len(categories) - 1))
             \o <<Line("category", <<category.name, TwoDecimals(category.total_amount),
                                     DigitsOf(category.count)>>)>>
             \o (IF category.patterns # <<>> THEN Bullets("pattern", category.patterns)
                 ELSE <<>>)
             \o <<Blank>>

\* a section that is left out when it has no items
Section(heading, kind, items) ==
    IF items # <<>> THEN <<Line("heading", heading)>> \o Bullets(kind, items) \o <<Blank>>
    ELSE <<>>

format_analysis_report(result) ==
    <<Line("title", "AI Expense Analysis Report"), Blank,
      Line("period", Title(result.period)),
      Line("total_expenses", TwoDecimals(result.total_expenses)),
      Line("total_transactions", DigitsOf(result.total_transactions)),
      Line("analysis_date", result.analysis_date), Blank>>
    \o <<Line("heading", "Category Breakdown")>>
    \o CategoryLines(result.categories)
    \o Section("Key Insights", "insight", result.insights)
    \o Section("Recommendations", "recommendation", result.recommendations)

\* the results a report is made of: up to MaxEntries categories without
\* patterns, with one and with two, and up to two insights and
\* recommendations
ReportCategories ==
    {[name |-> "Food", total_amount |-> 125, count |-> 3, descriptions |-> <<>>,
      patterns |-> <<>>],
     [name |-> "Gas", total_amount |-> 450, count |-> 1, descriptions |-> <<>>,
      patterns |-> <<"weekly">>],
     [name |-> "Unknown", total_amount |-> 0, count |-> 0, descriptions |-> <<>>,
      patterns |-> <<"daily", "mornings">>]}
ReportItems == {<<>>, <<"first">>, <<"first", "second">>}

AnalysisResult(period, categories, insights, recommendations) ==
    [period |-> period,
     total_expenses |-> SumAmount(categories, Len(categories)),
     total_transactions |-> SumCount(categories, Len(categories)),
     categories |-> categories, insights |-> insights,
     recommendations |-> recommendations, analysis_date |-> "2024-01-20 10:00:00"]

AnalysisResults ==
    {AnalysisResult(period, categories, insights, recommendations) :
        period \in {"monthly", "annual"},
        categories \in UNION {[1..n -> ReportCategories] : n \in 0..MaxEntries},
        insights \in ReportItems, recommendations \in ReportItems}

\* self.ai_analyzer.format_analysis_report(result)
FormatReportCall ==
    /\ Pending("format_analysis_report")
    /\ Returns(Return(format_analysis_report(facade.arg), <<>>, 0))

\* validate_amount and validate_category (bot/utils.py).  A value is of
\* a Python type; a number is given in thousandths, a str by its characters.
PyNumber(type, thousandths) == [type |-> type, thousandths |-> thousandths]
PyStr(chars) == [type |-> "str", chars |-> chars]
PyNone == [type |-> "NoneType"]

\* round(amount, 2), in thousandths: the nearest multiple of a hundredth;
\* half a hundredth goes to one of the two neighbours (which one depends on
\* the double), here the even one
round_2(thousandths) ==
    LET lo == (thousandths \div 10) * 10
        rest == thousandths - lo
    IN  IF rest < 5 THEN lo
        ELSE IF rest > 5 THEN lo + 10
        ELSE IF (lo \div 10) % 2 = 0 THEN lo ELSE lo + 10

UpperCase == <<"A", "B", "C", "D", "E", "F", "G", "H", "I", "J", "K", "L", "M",
               "N", "O", "P", "Q", "R", "S", "T", "U", "V", "W", "X", "Y", "Z">>
LowerCase == <<"a", "b", "c", "d", "e", "f", "g", "h", "i", "j", "k", "l", "m",
               "n", "o", "p", "q", "r", "s", "t", "u", "v", "w", "x", "y", "z">>

\* the lower-case form of a character
Lower(c) ==
    IF \E k \in 1..26 : UpperCase[k] = c
    THEN LowerCase[CHOOSE k \in 1..26 : UpperCase[k] = c]
    ELSE c

harmful_patterns ==
    << <<"<", "s", "c", "r", "i", "p", "t">>,
       <<"j", "a", "v", "a", "s", "c", "r", "i", "p", "t", ":">>,
       <<"d", "a", "t", "a", ":">>,
       <<"v", "b", "s", "c", "r", "i", "p", "t", ":">>,
       <<"o", "n", "l", "o", "a", "d", "=">>,
       <<"o", "n", "e", "r", "r", "o", "r", "=">>,
       <<"o", "n", "c", "l", "i", "c", "k", "=">>,
       <<"<", "i", "f", "r", "a", "m", "e">>,
       <<"<", "o", "b", "j", "e", "c", "t">>,
       <<"<", "e", "m", "b", "e", "d">> >>

\* re.search(pattern, text) for a pattern of plain characters
re_search(pattern, text) ==
    \E p \in 0..(Len(text) - Len(pattern)) :
       \A k \in 1..Len(pattern) : text[p + k] = pattern[k]

\* re.search(pattern, text, re.IGNORECASE)
re_search_ignorecase(pattern, text) ==
    re_search([k \in 1..Len(pattern) |-> Lower(pattern[k])],
              [k \in 1..Len(text) |-> Lower(text[k])])

validate_amount(amount) ==
    IF amount.type \notin {"int", "float", "bool"}
    THEN <<FALSE, "Amount must be a number.">>
    ELSE IF amount.thousandths <= 0 THEN <<FALSE, "Amount must be greater than 0.">>
    ELSE IF amount.thousandths > 1000000 * 1000
    THEN <<FALSE, "Amount seems too high. Please check and try again.">>
    ELSE IF round_2(amount.thousandths) # amount.thousandths
    THEN <<FALSE, "Amount can have maximum 2 decimal places.">>
    ELSE <<TRUE, "">>

\* a variant that looks for the patterns as they are written
validate_category_case_sensitive(category) ==
    IF category.type # "str" THEN <<FALSE, "Category must be text.">>
    ELSE IF category.chars = <<>> \/ Strip(category.chars) = <<>>
    THEN <<FALSE, "Please provide a description for your expense.">>
    ELSE IF Len(Strip(category.chars)) > MAX_CATEGORY_LEN
    THEN <<FALSE, "Description is too long. Please keep it under 100 characters.">>
    ELSE IF \E i \in 1..Len(harmful_patterns) :
               re_search(harmful_patterns[i], category.chars)
    THEN <<FALSE, "Description contains invalid content.">>
    ELSE <<TRUE, "">>

validate_category(category) ==
    IF category.type # "str" THEN <<FALSE, "Category must be text.">>
    ELSE IF category.chars = <<>> \/ Strip(category.chars) = <<>>
    THEN <<FALSE, "Please provide a description for your expense.">>
    ELSE IF Len(Strip(category.chars)) > MAX_CATEGORY_LEN
    THEN <<FALSE, "Description is too long. Please keep it under 100 characters.">>
    ELSE IF \E i \in 1..Len(harmful_patterns) :
               re_search_ignorecase(harmful_patterns[i], category.chars)
    THEN <<FALSE, "Description contains invalid content.">>
    ELSE <<TRUE, "">>

\* the values the validators are called on.  Amounts: those of the tests,
\* the bounds and their neighbours, three decimals, and values that are no
\* numbers.  Categories: texts around the length limit, blank texts, each
\* pattern as written, in upper case and in mixed case, alone and inside a
\* text, texts close to a pattern, and values that are no text.
AmountValues ==
    {PyNumber("float", n) : n \in {6600, 10, 1000000000, 0, -5000, 1000001000, 1000000010,
                                   1000000001, 1, 5, 15, 6666, 999999990, -10}}
    \cup {PyNumber("int", n) : n \in {0, 6000, 1000000000, 1000001000, -1000}}
    \cup {PyNumber("bool", 1000), PyNumber("bool", 0), PyStr(<<"a", "b", "c">>),
          PyStr(<<"6", ".", "6", "0">>), PyNone}

Upper(c) ==
    IF \E k \in 1..26 : LowerCase[k] = c
    THEN UpperCase[CHOOSE k \in 1..26 : LowerCase[k] = c]
    ELSE c

CategoryValues ==
    {PyStr(t) : t \in {Food, <<"c", "o", "f", "f", "e", "e", " ", "a", "t", " ", "X">>,
                       <<>>, <<" ">>, <<" ", "\t", "\n">>,
                       Rep("a", MAX_CATEGORY_LEN), Rep("a", MAX_CATEGORY_LEN + 1),
                       <<" ">> \o Rep("a", MAX_CATEGORY_LEN) \o <<" ", " ">>,
                       <<" ">> \o Rep("a", MAX_CATEGORY_LEN + 1),
                       <<"<", " ", "s", "c", "r", "i", "p", "t">>,
                       <<"o", "n", "c", "l", "i", "c", "k">>,
                       <<"d", "a", "t", "a">>,
                       <<"s", "c", "r", "i", "p", "t", ">">>}}
    \cup {PyStr(harmful_patterns[i]) : i \in 1..Len(harmful_patterns)}
    \cup {PyStr([k \in 1..Len(harmful_patterns[i]) |-> Upper(harmful_patterns[i][k])]) :
             i \in 1..Len(harmful_patterns)}
    \cup {PyStr(<<"a", " ">>
                \o [k \in 1..Len(harmful_patterns[i]) |->
                       IF k % 2 = 0 THEN Upper(harmful_patterns[i][k])
                       ELSE harmful_patterns[i][k]]
                \o <<"x">>) : i \in 1..Len(harmful_patterns)}
    \cup {PyNumber("int", 5000), PyNone}

ValidateAmountCall ==
    /\ Pending("validate_amount")
    /\ Returns(Return(validate_amount(facade.arg), <<>>, 0))

ValidateCategoryCall ==
    /\ Pending("validate_category")
    /\ Returns(Return(validate_category(facade.arg), <<>>, 0))

FunctionCalls ==
    {CallOf("parse_categorization_response", entries) : entries \in Stage1Entries}
    \cup {CallOf("format_analysis_report", result) : result \in AnalysisResults}
    \cup {CallOf("validate_amount", amount) : amount \in AmountValues}
    \cup {CallOf("validate_category", category) : category \in CategoryValues}

FunctionsInit ==
    /\ facade \in FunctionCalls
    /\ up = TRUE
    /\ ai_analyzer = None
    /\ run = NoRun
    /\ an = NoAnalysis
    /\ tasks = NoTasks
    /\ LedgerIdle
    /\ msg = <<>>
    /\ ret = <<>>

FunctionsNext ==
    \/ ParseCategorizationCall
    \/ FormatReportCall
    \/ ValidateAmountCall
    \/ ValidateCategoryCall

SpecFunctions == FunctionsInit /\ [][FunctionsNext]_vars

-----------------------------------------------------------------------------
(* parse_expense_message called again and again, between calls of the       *)
(* ledger client and the facade and changes of the web app: msg and ret are *)
(* the message and the result of the last call.                             *)

\* parse_expense_message(message), for any of the texts a user sends
ParseExpenseMessageCall ==
    /\ \E message \in BotMessages :
          /\ msg' = message
          /\ ret' = parse_expense_message(message)
    /\ UNCHANGED botVars
    /\ UNCHANGED ledgerVars
    /\ UNCHANGED facadeVars

RepeatedNext ==
    \/ ParseExpenseMessageCall
    \/ ClientLogExpense
    \/ OpsLogExpenseCall
    \/ TestConnection
    \/ BackendChanges

SpecRepeated == BotInit /\ [][RepeatedNext]_vars

-----------------------------------------------------------------------------
(* The handlers that run no analysis, one update after another, among      *)
(* direct calls of the parser.                                             *)

MessagesNext ==
    \/ \E message \in BotMessages, answer \in LogAnswers : handle_message(message, answer)
    \/ total_command
    \/ \E month \in Months :
          \E response \in Answering(month \in {Some("current"), Some("annual")}) :
             stats_command(month, response)
    \/ recent_command
    \/ monthly_report_command
    \/ annual_report_command
    \/ ParseExpenseMessageCall
    \/ BackendChanges

SpecMessages == BotInit /\ [][MessagesNext]_vars

-----------------------------------------------------------------------------
(* Claims about the parser (checked under SpecParser).                      *)

\* the parts of a message as the claims name them, for a text s that matches
\* the pattern: the numeric part with a comma read as the decimal point, and
\* the trailing text
NumericPart(s) ==
    LET a == ReMatch(s)[1][1]
    IN  [i \in 1..Len(a) |-> IF a[i] \in {",", "."} THEN "." ELSE a[i]]

TrailingText(s) == Strip(ReMatch(s)[1][2])

\* the numeric part as a number, and as the double float() makes of it
ExactValue(s) == Decimal(NumericPart(s))
DoubleValue(s) == RoundToDouble(ExactValue(s))

InRange(x) == x # Zero /\ ~GreaterThanInt(x, MAX_AMOUNT)

IsSuccess(r) == r[1] # None /\ r[2] # None /\ r[3] = ""
IsFailure(r) == r[1] = None /\ r[2] = None /\ r[3] # ""

FailsCheck(i, m) ==
    LET s == Strip(m)
        matched == s # <<>> /\ ReMatch(s) # None
        numeric == matched /\ IsFloatLiteral(NumericPart(s))
    IN  CASE i = 1 -> s = <<>>
          [] i = 2 -> ReMatch(s) = None
          [] i = 3 -> matched /\ ~numeric
          [] i = 4 -> numeric /\ DoubleValue(s) = Zero
          [] i = 5 -> numeric /\ GreaterThanInt(DoubleValue(s), MAX_AMOUNT)
          [] i = 6 -> matched /\ TrailingText(s) = <<>>
          [] i = 7 -> matched /\ Len(TrailingText(s)) > MAX_CATEGORY_LEN

ErrorOfCheck ==
    <<ERR_EMPTY, ERR_FORMAT, ERR_AMOUNT, ERR_NOT_POSITIVE, ERR_TOO_HIGH,
      ERR_NO_DESCRIPTION, ERR_TOO_LONG>>

FailedChecks(m) == {i \in 1..7 : FailsCheck(i, m)}

\* C2: the error returned is the one of the earliest failing check in the
\* order empty, format, non-numeric amount, amount <= 0, amount > 1,000,000,
\* empty category, category longer than 100; no error when no check fails.
C2_FirstFailingCheckWins ==
    ret # <<>> =>
        IF FailedChecks(msg) = {} THEN ret[3] = ""
        ELSE ret[3] = ErrorOfCheck[SetMin(FailedChecks(msg))]

\* a message failing both the ceiling and the length check has been parsed
C2_Witness ==
    /\ ret # <<>>
    /\ {5, 7} \subseteq FailedChecks(msg)

\* what the claims count as an acceptable message
AcceptableAsStated(m) ==
    /\ ReMatch(m) # None
    /\ InRange(ExactValue(m))
    /\ Len(TrailingText(m)) <= MAX_CATEGORY_LEN

AcceptableStripped(m) ==
    LET s == Strip(m)
    IN  /\ ReMatch(s) # None
        /\ InRange(DoubleValue(s))
        /\ Len(TrailingText(s)) <= MAX_CATEGORY_LEN

\* C3 as stated: every string that does not match the pattern with an
\* in-range amount and a trailing text of at most 100 characters fails with
\* (None, None, non-empty error); every outcome is a success or a failure.
C3_AsStated ==
    ret # <<>> =>
        /\ ~AcceptableAsStated(msg) => IsFailure(ret)
        /\ IsSuccess(ret) \/ IsFailure(ret)

\* C3 amended: every string that after strip does not match the pattern
\* with an amount that as a double is > 0 and <= 1,000,000 and a trailing
\* text of at most 100 characters fails with (None, None, non-empty error);
\* every outcome is exactly one of success (amount and category present,
\* error empty) and failure (both None, error non-empty).
C3_OthersFail ==
    ret # <<>> =>
        /\ ~AcceptableStripped(msg) => IsFailure(ret)
        /\ IsSuccess(ret) # IsFailure(ret)

\* a message with an in-range amount and a description of 101 characters
\* has been rejected
C3_Witness ==
    /\ ret # <<>>
    /\ IsFailure(ret)
    /\ FailedChecks(msg) = {7}

-----------------------------------------------------------------------------
(* Claims about the ledger (checked under SpecLedger).                      *)

\* the calls the facade reported as logged, in order
Successes == SelectSeq(calls, LAMBDA c : c.ops[1])

\* the sum of the amounts of the first n of a sequence of calls
RECURSIVE SumAmounts(_, _)
SumAmounts(cs, n) == IF n = 0 THEN 0 ELSE SumAmounts(cs, n - 1) + cs[n].amount

\* the backend answers each log with runningTotal = previous + amount: every
\* request that reached the script was answered with success, and the answer
\* reached the client
EveryLogAnswered ==
    \A i \in 1..Len(calls) :
        /\ calls[i].outcome # "timeout"
        /\ calls[i].response # None => calls[i].response[1].success

\* C4: against a backend that answers each log with previous total + amount,
\* every successful log reports a running total exactly its amount above the
\* one of the previous successful log, so the reported total is the sum of
\* the logged amounts and never decreases.
C4_RoundTrip ==
    EveryLogAnswered =>
        \A i \in 1..Len(Successes) :
            LET prev == IF i = 1 THEN 0 ELSE Successes[i - 1].ops[3].n
                total == Successes[i].ops[3]
            IN  /\ total = Num(prev + Successes[i].amount)
                /\ total = Num(SumAmounts(Successes, i))
                /\ total.n >= prev

\* two logs have succeeded against such a backend
C4_Witness ==
    /\ EveryLogAnswered
    /\ Len(Successes) = 2
    /\ Successes[2].ops[3].n = Successes[1].ops[3].n + Successes[2].amount

\* C5: under concurrent log requests every data row's running total is the
\* running total of the row before it plus the row's amount (the amount
\* alone for the first row below the header).
C5_ConsistentLedger ==
    \A i \in 1..Len(sheet) :
        IsDataRow(sheet[i]) =>
            sheet[i].total =
                Num((IF i > 1 /\ IsDataRow(sheet[i - 1]) THEN sheet[i - 1].total.n ELSE 0)
                    + sheet[i].amount.n)

\* C6: on a successful log the running total returned by the client and by
\* the facade is the runningTotal value of the response.
C6_PassThrough ==
    \A i \in 1..Len(calls) :
        LET c == calls[i]
        IN  /\ c.client.success =>
                  c.response # None /\ c.client.running_total = c.response[1].runningTotal
            /\ c.ops[1] =>
                  c.response # None /\ c.ops[3] = c.response[1].runningTotal

\* a log has succeeded with a running total that is not the sum of the
\* amounts the client saw succeed
C6_Witness ==
    /\ Len(Successes) >= 1
    /\ Successes[1].ops[3] # Num(Successes[1].amount)

-----------------------------------------------------------------------------
(* Claims about the bot (checked under SpecBot).                            *)

Range(seq) == {seq[i] : i \in DOMAIN seq}

Events(kind) == SelectSeq(run.trace, LAMBDA ev : ev.kind = kind)

\* C7: when the liveness probe fails, every operation that depends on the
\* ledger replies with the fixed ERROR_SHEETS_API message and performs no
\* ledger POST and no model call.
C7_ShortCircuit ==
    (run.op # "none" /\ run.down) =>
        /\ Events("post") = <<>>
        /\ Events("llm") = <<>>
        /\ run.pc = "done" => Events("reply") = <<Reply(ERROR_SHEETS_API)>>

StageOrder ==
    <<"Idle", "DataExtracted", "Categorized", "PatternsAnalyzed",
      "InsightsGenerated", "Terminal">>

Rank(stage) == CHOOSE i \in DOMAIN StageOrder : StageOrder[i] = stage

\* the request with which a stage shows in the trace, by the stage it starts in
StageRequests ==
    <<Post("getExpenseDataForAnalysis"), ModelCall("categorize"),
      ModelCall("patterns"), ModelCall("insights")>>

\* the requests of the analysis in the trace
AnalysisRequests == SelectSeq(run.trace, LAMBDA ev : ev \in Range(StageRequests))

\* the categories stage 2 asks the model about
Asked(categories) == {i \in DOMAIN categories : categories[i].count > 1}

\* what the stages before the one reached have produced
Produced(a) ==
    /\ Rank(a.stage) >= 2 => a.df # ""
    /\ Rank(a.stage) >= 3 => a.categories # None
    /\ Rank(a.stage) >= 5 => a.totals # None /\ a.insights # None
    /\ Rank(a.stage) >= 6 => a.result # None

\* C8: every run of analyze_expenses goes through data extraction,
\* categorize, pattern analysis, insight generation and result construction
\* in this order: the stage advances by one or the run fails, a stage issues
\* its requests only when the stages before it have produced their values,
\* and a run that reaches Terminal has issued the requests of every stage.
C8_StagesInOrder ==
    [][ /\ an'.stage # an.stage =>
              \/ an'.stage = "Idle"
              \/ an.stage \notin {"Terminal", "Failed"} /\ an'.stage = "Failed"
              \/ /\ an.stage \notin {"Terminal", "Failed"}
                 /\ an'.stage # "Failed"
                 /\ Rank(an'.stage) = Rank(an.stage) + 1
                 /\ Produced(an')
        /\ (run.pc = "analyzing" /\ run'.pc = "analyzing") =>
              \A i \in (Len(run.trace) + 1)..Len(run'.trace) :
                  /\ an.stage \notin {"Terminal", "Failed"}
                  /\ Produced(an)
                  /\ run'.trace[i] = StageRequests[Rank(an.stage)]
        /\ an'.stage = "Terminal" =>
              LET requests == SelectSeq(run'.trace,
                                        LAMBDA ev : ev \in Range(StageRequests))
              IN  requests = <<StageRequests[1], StageRequests[2]>>
                             \o [i \in 1..Cardinality(Asked(an'.categories[1])) |->
                                    StageRequests[3]]
                             \o <<StageRequests[4]>>
      ]_vars

\* an analysis has returned its result after model calls in all three flows
C8_Witness ==
    /\ an.stage = "Terminal"
    /\ an.result # None
    /\ ModelCall("patterns") \in Range(run.trace)

\* the requests of a run that failed in the stage it left from: those of
\* the stages before it, once each, and those of the failing stage
FailedRunRequests(a, requests) ==
    LET r == Rank(a.from)
        before == [i \in 1..(r - 1) |-> StageRequests[i]]
    IN  CASE r <= 2 -> requests = Append(before, StageRequests[r])
          [] r = 3 -> \E n \in 1..Cardinality(Asked(a.categories[1])) :
                         requests = before \o [i \in 1..n |-> StageRequests[3]]
          [] r = 4 -> requests = <<StageRequests[1], StageRequests[2]>>
                                 \o [i \in 1..Cardinality(Asked(a.categories[1])) |->
                                        StageRequests[3]]
                                 \o <<StageRequests[4]>>

\* C9: when data extraction, stage 1 or a model call of stage 2 or 3 fails,
\* nothing is retried (every request up to the failure was issued once and
\* none after it), no AnalysisResult is built, no report is sent and no
\* analysis is logged to the ledger; the handler ends with the error reply.
C9_NoPartialCommit ==
    an.stage = "Failed" =>
        /\ an.result = None
        /\ FailedRunRequests(an, AnalysisRequests)
        /\ Reply("report") \notin Range(run.trace)
        /\ Post("logAIAnalysis") \notin Range(run.trace)
        /\ run.pc = "done" =>
              run.trace[Len(run.trace)] = ReplyError("Error during AI analysis: ",
                                                     an.error[1])

\* a button handler has ended after a model call of stage 2 failed
C9_Witness ==
    /\ an.stage = "Failed"
    /\ an.from = "Categorized"
    /\ run.op = "monthly_ai"
    /\ run.pc = "done"

\* the log texts of the four stages, by the stage the failure left from
FlowTexts ==
    <<"Error extracting expense data: ", "Error in categorization flow: ",
      "Error in pattern analysis flow: ", "Error in insights generation flow: ">>

FlowEntries == SelectSeq(an.log, LAMBDA entry : entry.text \in Range(FlowTexts))

\* the stage an exception names by itself, as the stage the run leaves from:
\* the ValueError of the data request names data extraction, the errors of
\* the stage 1 parse name stage 1; the error of a model call is the same in
\* all three flows and names none
StageNamedBy(e) ==
    CASE e.type = "ValueError" /\ e.text[1] = "Failed to get expense data: " -> "Idle"
      [] e.type = "ValueError" /\ e.text[1] = "No JSON found in response" -> "DataExtracted"
      [] e.type = "JSONDecodeError" -> "DataExtracted"
      [] OTHER -> ""

\* C10 as stated: the outcome of a failed analysis, the exception that
\* leaves analyze_expenses, identifies the stage the failure arose in.
C10_AsStated ==
    an.stage = "Failed" => StageNamedBy(an.error[1]) = an.from

\* the ValueError analyze_expenses raises itself, between the extraction and
\* stage 1, when the frame has no rows
RaisedBetweenFlows(e) == e = Error("ValueError", <<"No expense data found">>)

\* C10 amended: a failed analysis raises the underlying error as it is; the
\* stage it arose in is named by one entry of the error log, the one of
\* the failing flow, which carries that error, and the last entry is the
\* one of analyze_expenses with the same error.  The error about a frame
\* without rows arises in no flow and has the last entry only.
C10_StageInLog ==
    an.stage = "Failed" =>
        /\ an.error # None
        /\ an.from \in {"Idle", "DataExtracted", "Categorized", "PatternsAnalyzed"}
        /\ FlowEntries = IF RaisedBetweenFlows(an.error[1]) THEN <<>>
                         ELSE <<LogEntry(FlowTexts[Rank(an.from)], an.error[1])>>
        /\ RaisedBetweenFlows(an.error[1]) => an.from = "Idle"
        /\ an.log[Len(an.log)] = LogEntry("Error in expense analysis: ", an.error[1])

\* an analysis has failed on the model call of stage 3
C10_Witness ==
    /\ an.stage = "Failed"
    /\ an.from = "PatternsAnalyzed"
    /\ an.error = Some(ModelError)
    /\ FlowEntries # <<>>

-----------------------------------------------------------------------------
(* Claims about the flows of the analysis.                                  *)

\* what the model answered in a flow, in the order of the calls
HeardIn(flow) == SelectSeq(an.heard, LAMBDA h : h.flow = flow)

\* the text holds a JSON object
HoldsJson(text) ==
    \E i, j \in 1..Len(text) : SubSeq(text, i, j) = <<"{", "json", "}">>

\* the calls of a flow whose answer is a text that holds no JSON object
Unparseable(heard) ==
    {k \in 1..Len(heard) : heard[k].answer.kind = "text"
                           /\ ~HoldsJson(heard[k].answer.text)}

\* flow 2 asked about several categories, the model answered each call, and
\* exactly one answer is not parseable
OneOfSeveralUnparseable ==
    LET heard == HeardIn("patterns")
    IN  /\ an.categories # None
        /\ Len(heard) >= 2
        /\ Len(heard) = Cardinality(Asked(an.categories[1]))
        /\ \A k \in 1..Len(heard) : heard[k].answer.kind = "text"
        /\ Cardinality(Unparseable(heard)) = 1

\* C11: in stage 2, when the answer for exactly one category among several
\* with count > 1 is not parseable JSON, that category ends with an empty
\* patterns list, every other such category has the patterns of the answer
\* given for it, and stage 2 does not fail: the analysis goes on to stage 3.
C11_LocalizedFailure ==
    LET heard == HeardIn("patterns")
    IN  OneOfSeveralUnparseable
        => /\ \A k \in 1..Len(heard) :
                 an.categories[1][heard[k].category].patterns
                    = IF k \in Unparseable(heard) THEN <<>>
                      ELSE heard[k].answer.patterns
           /\ an.stage # "Categorized"
           /\ an.stage = "Failed" => an.from # "Categorized"

C11_Witness ==
    /\ OneOfSeveralUnparseable
    /\ an.stage = "Terminal"
    /\ HeardIn("insights") # <<>>
    /\ \E i \in DOMAIN an.categories[1] : an.categories[1][i].patterns = PatternsAbout(i)
    /\ \E i \in Asked(an.categories[1]) : an.categories[1][i].patterns = <<>>

\* flow 3 was answered with a text that holds no JSON object
InsightsUnparseable ==
    LET heard == HeardIn("insights")
    IN  /\ heard # <<>>
        /\ heard[1].answer.kind = "text"
        /\ ~HoldsJson(heard[1].answer.text)

\* C12: in stage 3, when the answer has no brace pair or does not parse as
\* JSON, the stage does not fail, insights and recommendations are both
\* empty, and the AnalysisResult that analyze_expenses builds has these empty
\* lists together with the categories of stage 2 and the totals over them.
C12_InsightsDegrade ==
    InsightsUnparseable
    => /\ an.stage \in {"InsightsGenerated", "Terminal"}
       /\ an.insights = Some(<<<<>>, <<>>>>)
       /\ an.stage = "Terminal"
          => /\ an.result # None
             /\ an.result[1].insights = <<>>
             /\ an.result[1].recommendations = <<>>
             /\ an.result[1].categories = an.categories[1]
             /\ an.result[1].total_expenses
                   = SumAmount(an.categories[1], Len(an.categories[1]))
             /\ an.result[1].total_transactions
                   = SumCount(an.categories[1], Len(an.categories[1]))
             /\ an.result[1].period = an.period

C12_Witness ==
    /\ InsightsUnparseable
    /\ an.stage = "Terminal"
    /\ an.result # None
    /\ an.result[1].categories # <<>>
    /\ an.result[1].insights = <<>>
    /\ HeardIn("insights")[1].answer.text = JunkInBraces

\* the positions of a character in a text
Positions(text, ch) == {i \in 1..Len(text) : text[i] = ch}

\* the text has an opening brace with a closing brace after it
HasBracePair(text) ==
    \E i \in Positions(text, "{"), j \in Positions(text, "}") : i < j

\* the text from the first opening brace to the last closing brace
Between(text) == SubSeq(text, SetMin(Positions(text, "{")), SetMax(Positions(text, "}")))

\* flow 1 was answered with this text
Stage1Text == HeardIn("categorize")[1].answer.text
Stage1Answered ==
    HeardIn("categorize") # <<>> /\ HeardIn("categorize")[1].answer.kind = "text"

\* the analysis stopped in stage 1: no categories, no call of flows 2 and 3
StoppedInStage1 ==
    /\ an.stage = "Failed"
    /\ an.from = "DataExtracted"
    /\ an.categories = None
    /\ HeardIn("patterns") = <<>>
    /\ HeardIn("insights") = <<>>
    /\ \A i \in DOMAIN run.trace :
          run.trace[i] \notin {ModelCall("patterns"), ModelCall("insights")}

\* the exception holds the text, as its document or in its message
Carries(e, text) ==
    \/ e.doc = Some(text)
    \/ \E i, j \in 1..Len(e.text) : SubSeq(e.text, i, j) = text

\* C13 as stated: a stage 1 text without a brace pair fails the analysis
\* with the no-JSON error, a text whose part between the first opening and
\* the last closing brace is no JSON fails it with a decode error that
\* carries the raw response text, and stages 2 and 3 are not run.
C13_AsStated ==
    Stage1Answered
    => /\ ~HasBracePair(Stage1Text)
          => /\ StoppedInStage1
             /\ an.error[1].type = "ValueError"
       /\ (HasBracePair(Stage1Text) /\ ~HoldsJson(Stage1Text))
          => /\ StoppedInStage1
             /\ an.error[1].type = "JSONDecodeError"
             /\ Carries(an.error[1], Stage1Text)

\* C13: a stage 1 text in which an opening or a closing brace is missing
\* fails the analysis with ValueError (No JSON found in response); a text
\* that has both, and whose part from the first opening to the last closing
\* brace (empty when the closing one comes first) is no JSON, fails it with
\* a JSONDecodeError that holds that part only, not the text around it; in
\* both cases stages 2 and 3 are not run.
C13_Stage1Fatal ==
    Stage1Answered
    => /\ (Positions(Stage1Text, "{") = {} \/ Positions(Stage1Text, "}") = {})
          => /\ StoppedInStage1
             /\ an.error = Some(Error("ValueError", <<"No JSON found in response">>))
       /\ (Positions(Stage1Text, "{") # {} /\ Positions(Stage1Text, "}") # {}
           /\ Between(Stage1Text) # <<"{", "json", "}">>)
          => /\ StoppedInStage1
             /\ an.error[1].type = "JSONDecodeError"
             /\ an.error[1].doc = Some(Between(Stage1Text))
             /\ Between(Stage1Text) # Stage1Text => ~Carries(an.error[1], Stage1Text)

C13_Witness ==
    /\ Stage1Answered
    /\ Stage1Text = JunkInBraces
    /\ StoppedInStage1
    /\ an.error[1].doc = Some(<<"{", "junk", "}">>)
    /\ run.pc = "done"

\* the categories stage 1 produced: those of the JSON object in its answer
Stage1Categories == categories_of(HeardIn("categorize")[1].answer.categories).value
Stage1Done == an.categories # None

\* stage 2 has returned
Stage2Done ==
    /\ Stage1Done
    /\ an.stage # "Categorized"
    /\ an.stage = "Failed" => an.from # "Categorized"

\* the categories the calls of flow 2 were about, in the order of the calls
CalledAbout == [k \in DOMAIN HeardIn("patterns") |-> HeardIn("patterns")[k].category]

\* C14 as stated: stage 2 calls the model for a category exactly when its
\* count is greater than 1, and every category with count <= 1 leaves
\* stage 2 with an empty patterns list, whatever stage 1 produced for it.
C14_AsStated ==
    Stage2Done
    => /\ Range(CalledAbout) = Asked(Stage1Categories)
       /\ \A i \in DOMAIN an.categories[1] :
             an.categories[1][i].count <= 1 => an.categories[1][i].patterns = <<>>

\* C14: stage 2 calls the model only for categories with count > 1, in
\* the order of the list and at most once each; when it returns it has
\* called the model for every such category, there is one call in the
\* trace for each, and every category with count <= 1 is as stage 1
\* produced it, its patterns included.
C14_CallsAndPassThrough ==
    Stage1Done
    => /\ \A k \in DOMAIN CalledAbout : CalledAbout[k] \in Asked(Stage1Categories)
       /\ \A k, l \in DOMAIN CalledAbout : k < l => CalledAbout[k] < CalledAbout[l]
       /\ Len(SelectSeq(run.trace, LAMBDA ev : ev = ModelCall("patterns")))
             = Len(CalledAbout)
       /\ Stage2Done
          => /\ Range(CalledAbout) = Asked(Stage1Categories)
             /\ Len(an.categories[1]) = Len(Stage1Categories)
             /\ \A i \in DOMAIN Stage1Categories :
                   Stage1Categories[i].count <= 1
                   => an.categories[1][i] = Stage1Categories[i]

C14_Witness ==
    /\ Stage2Done
    /\ an.stage = "Terminal"
    /\ Len(CalledAbout) = 1
    /\ \E i \in DOMAIN an.categories[1] :
          /\ an.categories[1][i].count <= 1
          /\ an.categories[1][i].patterns # <<>>

\* the sum of a field over a list of categories
RECURSIVE SumOver(_, _)
SumOver(categories, field) ==
    IF categories = <<>> THEN 0
    ELSE Head(categories)[field] + SumOver(Tail(categories), field)

\* C15: every AnalysisResult that analyze_expenses builds has
\* total_expenses equal to the sum of total_amount over its categories and
\* total_transactions equal to the sum of count over them, also when stage 2
\* or stage 3 degraded to empty lists and when there is no category.
C15_TotalsAreSums ==
    an.result # None
    => /\ an.result[1].total_expenses = SumOver(an.result[1].categories, "total_amount")
       /\ an.result[1].total_transactions = SumOver(an.result[1].categories, "count")

C15_Witness ==
    /\ an.result # None
    /\ Len(an.result[1].categories) = MaxCategories
    /\ an.result[1].total_transactions > MaxCategories
    /\ Unparseable(HeardIn("patterns")) # {}
    /\ an.result[1].insights = <<>>

\* a result without categories is built as well
C15_EmptyList == an.result # None /\ an.result[1].categories = <<>>

-----------------------------------------------------------------------------
(* Claims about the ledger client, the ledger facade and what reaches them. *)

\* the web app answered 200 with success false and an error text
AppFailure(response) ==
    /\ response.kind = "json"
    /\ ~response.body.success
    /\ response.body.error # None

\* text is a part of message
Contains(message, text) ==
    \E i \in 1..Len(message), j \in 1..Len(message) : SubSeq(message, i, j) = text

\* C16: when the web app answers getMonthlyStats, getExpenseDataForAnalysis
\* or logAIAnalysis with success false and an error text, the caller of the
\* facade gets a failure whose message contains that text.
C16_ErrorTextSurfaced ==
    (facade.op \in NamedActions /\ AppFailure(facade.response))
    => /\ ~facade.success
       /\ Contains(facade.message, facade.response.body.error[1])

\* the layer at which a request failed, and the layer a message names
Layer(response) ==
    CASE response.kind = "raise" -> "network"
      [] response.kind = "http" -> "http"
      [] response.kind = "json" /\ ~response.body.success -> "application"
      [] OTHER -> "none"

LayerNamedBy(message) ==
    CASE message = <<>> -> "none"
      [] message # <<>> /\ message[1] = "Request failed: " -> "network"
      [] message # <<>> /\ message[1] = "HTTP error " -> "http"
      [] message # <<>> /\ message[1] = "Apps Script error: " -> "application"
      [] OTHER -> "none"

\* C17: for log_expense and call_apps_script_function of the client, a
\* failure of the network, a status other than 200, and a 200 with success
\* false each give a failure whose message names that layer, so that no two
\* layers give the same form of message.
C17_LayerInMessage ==
    (/\ facade.op \in {"client.log_expense", "client.call_apps_script_function"}
     /\ Layer(facade.response) # "none")
    => /\ ~facade.success
       /\ LayerNamedBy(facade.message) = Layer(facade.response)

\* C18: SheetOperations.log_expense posts nothing and returns a failure when
\* the amount is not positive or above 1,000,000, or the category is blank
\* or longer than 100 characters after trimming.
C18_FacadeValidates ==
    (facade.op = "log_expense"
     /\ ~validate_expense_data(facade.amount, facade.category)[1])
    => /\ facade.posts = <<>>
       /\ ~facade.success

\* the characters sanitize_text escapes and validate_category looks for
MarkupChars == {"<", ">", "&"}

\* C19: every expense handle_message posts to the ledger has a positive
\* amount of at most 1,000,000 with at most two decimals, and a category of
\* at most 100 characters without markup.
C19_ForwardedExpenseValid ==
    \A i \in DOMAIN run.trace :
       (run.trace[i].kind = "post" /\ run.trace[i].what = "log_expense")
       => /\ run.trace[i].amount # Zero
          /\ ~GreaterThanInt(run.trace[i].amount, MAX_AMOUNT)
          /\ Len(run.trace[i].amount.frac) <= 2
          /\ Len(run.trace[i].category) <= MAX_CATEGORY_LEN
          /\ \A k \in DOMAIN run.trace[i].category :
                run.trace[i].category[k] \notin MarkupChars

\* the operations of the client and of the facade
LedgerOperations ==
    {"client.log_expense", "client.call_apps_script_function", "test_connection",
     "log_expense"} \cup NamedActions

\* the web app did not answer 200 with success true
Unsuccessful(response) ==
    \/ response.kind \in {"raise", "http", "notjson", "notjson_legacy"}
    \/ response.kind = "json" /\ ~response.body.success

\* C20 as stated: no operation of the core lets an exception escape to its
\* caller, analyze_expenses included.
C20_AsStated == ~facade.raised

\* C20: the operations of the client and of the facade return an outcome
\* for every answer of the web app, a failure when the answer is not a
\* success, and raise nothing; analyze_expenses returns a result when every
\* stage succeeded and otherwise raises the logged exception of the failed
\* stage to its caller.
C20_OutcomeOrRaise ==
    /\ facade.op \in LedgerOperations
       => /\ ~facade.raised
          /\ facade.success \in BOOLEAN
          /\ Unsuccessful(facade.response) => ~facade.success
    /\ (facade.op = "analyze_expenses" /\ run.pc = "done")
       => /\ facade.raised <=> an.stage = "Failed"
          /\ facade.raised
             => /\ an.result = None
                /\ an.error # None
                /\ an.log[Len(an.log)]
                      = LogEntry("Error in expense analysis: ", an.error[1])
          /\ ~facade.raised => facade.success /\ an.result # None

C20_Witness ==
    /\ facade.op = "analyze_expenses"
    /\ run.pc = "done"
    /\ facade.raised
    /\ an.from = "DataExtracted"
    /\ an.error[1].type = "JSONDecodeError"

-----------------------------------------------------------------------------
(* Claims about the functions of the analyzer and of bot/utils.py, called   *)
(* directly (checked under SpecCore).                                       *)

\* the call op(facade.arg) was made
Applied(op) == facade.op = op /\ facade.returned # None

ParseCalled == Applied("parse_categorization_response")
Given == facade.arg
Built == facade.returned[1]

\* the numerals that denote a number of tenths
Numerals(tenths) ==
    {DigitsOf(tenths \div 10) \o <<".", CharOfDigit[(tenths % 10) + 1]>>}
    \cup (IF tenths % 10 = 0 THEN {DigitsOf(tenths \div 10)} ELSE {})

\* the fields of text and of lists of category c are those of entry e, or
\* the defaults
TextFieldsKept(e, c) ==
    /\ c.name = (IF "name" \in DOMAIN e THEN e.name ELSE "Unknown")
    /\ c.descriptions = (IF "descriptions" \in DOMAIN e THEN e.descriptions ELSE <<>>)
    /\ c.patterns = (IF "patterns" \in DOMAIN e THEN e.patterns ELSE <<>>)

\* the total_amount of category c is the number entry e gives, as a number
\* or as a numeral in a str, or the default
AmountCoerced(e, c) ==
    IF "total_amount" \notin DOMAIN e THEN c.total_amount = 0
    ELSE CASE e.total_amount.type = "number" -> c.total_amount = e.total_amount.tenths
           [] e.total_amount.type = "str" ->
                 e.total_amount.chars \in Numerals(c.total_amount)
           [] OTHER -> FALSE

\* the count of category c is the count entry e gives, or the default
CountKept(e, c) ==
    IF "count" \notin DOMAIN e THEN c.count = 0
    ELSE e.count = JNumber(10 * c.count)

\* the count of category c is the whole part of the number entry e gives,
\* or the number that the digits in a str denote, or the default
CountTruncated(e, c) ==
    IF "count" \notin DOMAIN e THEN c.count = 0
    ELSE CASE e.count.type = "number" ->
                 10 * c.count <= e.count.tenths /\ e.count.tenths < 10 * c.count + 10
           [] e.count.type = "str" -> e.count.chars = DigitsOf(c.count)
           [] OTHER -> FALSE

\* a value that float() or int() does not take: None, or a str that is no
\* numeral (for int(): that is not a run of digits)
NoNumeral(x, integral) ==
    \/ x.type = "NoneType"
    \/ /\ x.type = "str"
       /\ \/ \E i \in 1..Len(x.chars) : ~IsDigit(x.chars[i]) /\ (integral \/ x.chars[i] # ".")
          \/ x.chars = <<>>

Unconvertible(e) ==
    \/ "total_amount" \in DOMAIN e /\ NoNumeral(e.total_amount, FALSE)
    \/ "count" \in DOMAIN e /\ NoNumeral(e.count, TRUE)

\* C21 as stated: every entry of a stage-1 response gives a category, in
\* the order of the response, in which a missing field has its default and
\* a present field is kept, total_amount as a number also when it is given
\* as a string.
C21_AsStated ==
    ParseCalled
    => /\ Built.ok
       /\ Len(Built.value) = Len(Given)
       /\ \A i \in 1..Len(Given) :
             /\ TextFieldsKept(Given[i], Built.value[i])
             /\ AmountCoerced(Given[i], Built.value[i])
             /\ CountKept(Given[i], Built.value[i])

\* C21: when no entry holds a total_amount or a count that is None or a
\* string that is no numeral, the parse returns one category for each
\* entry, in the order of the response; a missing field has its default
\* whatever the other fields are, name, descriptions and patterns are kept,
\* total_amount is the number given (as a number or as a numeral in a
\* string) and count is the whole part of the number given; otherwise the
\* parse raises ValueError or TypeError, which it logs, and returns no
\* category.
C21_DefaultsAndCoercion ==
    ParseCalled
    => /\ Built.ok <=> \A i \in 1..Len(Given) : ~Unconvertible(Given[i])
       /\ Built.ok
          => /\ Len(Built.value) = Len(Given)
             /\ \A i \in 1..Len(Given) :
                   /\ TextFieldsKept(Given[i], Built.value[i])
                   /\ AmountCoerced(Given[i], Built.value[i])
                   /\ CountTruncated(Given[i], Built.value[i])
       /\ ~Built.ok
          => /\ Built.error[1].type \in {"ValueError", "TypeError"}
             /\ Built.log = <<LogEntry("Error parsing categorization response: ",
                                       Built.error[1])>>

\* a response of two entries: the first has only a count, the second has
\* all fields, its total_amount in a string
C21_Witness ==
    /\ ParseCalled
    /\ Built.ok
    /\ Len(Given) = 2
    /\ DOMAIN Given[1] = {"count"}
    /\ Given[2] = [WholeEntry EXCEPT !.total_amount = JString(<<"1", "2", ".", "5">>)]
    /\ Built.value[1] = [name |-> "Unknown", total_amount |-> 0, count |-> 1,
                         descriptions |-> <<>>, patterns |-> <<>>]
    /\ Built.value[2].total_amount = 125

ReportCalled == Applied("format_analysis_report")

\* the positions of the lines of these kinds in a report
LinesOf(report, kinds) == {p \in 1..Len(report) : report[p].kind \in kinds}
HeadingAt(report, heading) ==
    {p \in 1..Len(report) : report[p] = Line("heading", heading)}

\* all lines at positions P come before all lines at positions Q
Before(P, Q) == \A p \in P, q \in Q : p < q

\* what the section under a heading shows
BodyKind(heading) ==
    CASE heading = "Category Breakdown" -> "category"
      [] heading = "Key Insights" -> "insight"
      [] heading = "Recommendations" -> "recommendation"

\* the header fields once each and in order, then the categories in list
\* order, each followed by its pattern bullets, then the insights, then the
\* recommendations, each list in its order
ReportLaidOut(result, report) ==
    LET header == <<"period", "total_expenses", "total_transactions", "analysis_date">>
        shown == SelectSeq(report, LAMBDA l : l.kind \in {"category", "pattern"})
        at == LinesOf(report, {"category"})
        Nth(k) == CHOOSE p \in at : Cardinality({q \in at : q < p}) = k - 1
    IN  /\ \A k \in 1..4 : Cardinality(LinesOf(report, {header[k]})) = 1
        /\ \A k \in 1..3 : Before(LinesOf(report, {header[k]}), LinesOf(report, {header[k + 1]}))
        /\ Before(LinesOf(report, {"analysis_date"}),
                  LinesOf(report, {"heading", "category", "pattern", "insight",
                                   "recommendation"}))
        /\ Cardinality(at) = Len(result.categories)
        /\ \A k \in 1..Len(result.categories) :
              LET category == result.categories[k]
                  n == Len(category.patterns)
              IN  /\ report[Nth(k)].text[1] = category.name
                  /\ report[Nth(k)].text[2] = TwoDecimals(category.total_amount)
                  /\ SubSeq(report, Nth(k) + 1, Nth(k) + n)
                     = Bullets("pattern", category.patterns)
                  /\ report[Nth(k) + n + 1].kind # "pattern"
        /\ Before(LinesOf(report, {"category", "pattern"}),
                  HeadingAt(report, "Key Insights") \cup LinesOf(report, {"insight"}))
        /\ Before(HeadingAt(report, "Key Insights") \cup LinesOf(report, {"insight"}),
                  HeadingAt(report, "Recommendations")
                  \cup LinesOf(report, {"recommendation"}))
        /\ SelectSeq(report, LAMBDA l : l.kind = "insight")
           = Bullets("insight", result.insights)
        /\ SelectSeq(report, LAMBDA l : l.kind = "recommendation")
           = Bullets("recommendation", result.recommendations)

\* a section is in the report exactly when its list has items
SectionIffItems(report, heading, items) ==
    HeadingAt(report, heading) # {} <=> items # <<>>

\* a heading is followed by a line of its section
NoEmptySection(report) ==
    \A p \in LinesOf(report, {"heading"}) :
       p < Len(report) /\ report[p + 1].kind = BodyKind(report[p].text)

\* the insights and the recommendations are shown under their headings
\* exactly when there are any
OptionalSections(result, report) ==
    /\ SectionIffItems(report, "Key Insights", result.insights)
    /\ SectionIffItems(report, "Recommendations", result.recommendations)
    /\ \A p \in HeadingAt(report, "Key Insights") \cup HeadingAt(report, "Recommendations") :
          p < Len(report) /\ report[p + 1].kind = BodyKind(report[p].text)

\* the part of C22 that the report has for every result
C22_LayoutOfReport ==
    ReportCalled
    => ReportLaidOut(Given, Built.value) /\ OptionalSections(Given, Built.value)

\* C22: the report shows the header fields, the categories with their
\* pattern bullets, the insights and the recommendations in this order, a
\* section is shown exactly when its list has items, and no section is
\* shown with an empty body.
C22_NoSectionShownEmpty ==
    ReportCalled
    => /\ ReportLaidOut(Given, Built.value)
       /\ SectionIffItems(Built.value, "Category Breakdown", Given.categories)
       /\ SectionIffItems(Built.value, "Key Insights", Given.insights)
       /\ SectionIffItems(Built.value, "Recommendations", Given.recommendations)
       /\ NoEmptySection(Built.value)

-----------------------------------------------------------------------------
(* Claims about the handlers (checked under SpecBot).                       *)

AIHandlers == {"analyze_monthly", "monthly_ai", "analyze_annual", "annual_ai"}

\* an AI handler ended after analyze_expenses returned a result
AnalysisSucceeded(op) == run.op = op /\ run.pc = "done" /\ an.stage = "Terminal"

\* the last thing the handler did was to send the report
ReportSent == run.trace # <<>> /\ run.trace[Len(run.trace)] = Reply("report")

\* C23: when analyze_expenses returns a result, /analyze_annual and the
\* annual_ai button send the formatted report, as /analyze_monthly and the
\* monthly_ai button do.
C23_AnnualLikeMonthly ==
    \A op \in AIHandlers : AnalysisSucceeded(op) => ReportSent

\* what holds of the handlers: all but /analyze_annual send the report
C23_AllButAnnualCommand ==
    \A op \in AIHandlers \ {"analyze_annual"} : AnalysisSucceeded(op) => ReportSent

-----------------------------------------------------------------------------
(* Further claims about the parser (checked under SpecParser).              *)

\* a message that is a minus sign before an amount and a description
NegativeAmount(m) ==
    LET t == Strip(m)
    IN  Len(t) > 1 /\ t[1] = "-" /\ ReMatch(Tail(t)) # None

\* C24: a message whose amount is negative, such as "-5.00 food", is
\* rejected with the error that the amount must be greater than 0.
C24_NegativeIsNotPositive ==
    (ret # <<>> /\ NegativeAmount(msg)) => ret = Failure(ERR_NOT_POSITIVE)

\* what the parser answers to such a message: the error of the format
C24_NegativeIsInvalidFormat ==
    (ret # <<>> /\ NegativeAmount(msg)) => ret = Failure(ERR_FORMAT)

-----------------------------------------------------------------------------
(* Claims about the validators of bot/utils.py (checked under               *)
(* SpecFunctions).                                                          *)

AmountCalled == Applied("validate_amount")
CategoryCalled == Applied("validate_category")

\* an int or a float; bool is a subclass of int (True is 1)
IsNumber(v) == v.type \in {"int", "float", "bool"}

\* two characters are the same letter in whatever case
SameLetter(a, b) ==
    a = b \/ \E k \in 1..26 : {a, b} = {UpperCase[k], LowerCase[k]}

\* one of the harmful patterns occurs in the text in some letter case
HarmfulIn(text) ==
    \E i \in 1..Len(harmful_patterns) :
       \E p \in 0..(Len(text) - Len(harmful_patterns[i])) :
          \A k \in 1..Len(harmful_patterns[i]) :
             SameLetter(text[p + k], harmful_patterns[i][k])

\* C26: validate_amount accepts a value exactly when it is a number
\* greater than 0, at most 1,000,000 and with at most two decimal places;
\* validate_category accepts a value exactly when it is a text that is not
\* empty after the trim, has at most 100 characters after the trim and
\* holds none of the harmful patterns in any letter case.
C26_ValidatorsAcceptIff ==
    /\ AmountCalled
       => (Built.value[1]
           <=> /\ IsNumber(Given)
               /\ 0 < Given.thousandths
               /\ Given.thousandths <= 1000000 * 1000
               /\ Given.thousandths % 10 = 0)
    /\ CategoryCalled
       => (Built.value[1]
           <=> /\ Given.type = "str"
               /\ Strip(Given.chars) # <<>>
               /\ Len(Strip(Given.chars)) <= MAX_CATEGORY_LEN
               /\ ~HarmfulIn(Given.chars))

\* the values the claim names: a non-number, 0, a negative value and
\* 1,000,001 are rejected, 0.01 and 1,000,000 are accepted
C26_NamedAmounts ==
    AmountCalled
    => /\ Given \in {PyStr(<<"a", "b", "c">>), PyNumber("int", 0), PyNumber("float", -5000),
                     PyNumber("float", 1000001000)} => ~Built.value[1]
       /\ Given \in {PyNumber("float", 10), PyNumber("float", 1000000000)} => Built.value[1]

\* a pattern in upper case is rejected
C26_Witness ==
    /\ CategoryCalled
    /\ Given = PyStr(<<"<", "S", "C", "R", "I", "P", "T">>)
    /\ Built.value = <<FALSE, "Description contains invalid content.">>

\* an amount with three decimals is rejected
C26_WitnessAmount ==
    /\ AmountCalled
    /\ Given = PyNumber("float", 6666)
    /\ Built.value = <<FALSE, "Amount can have maximum 2 decimal places.">>

\* the total the next logged expense builds on
LastTotal(sh) == IF GetLastRow(sh) > 1 THEN sh[GetLastRow(sh)].total ELSE Num(0)

NamedActionPosted == \E payload \in NamedPayloads, fault \in {"none", "appendRow"} :
                         PostNamedAction(payload, fault)

\* C27: a request with an action key appends no row to the Expenses sheet
\* and leaves the total the next logged expense builds on as it was
C27_NamedActionsReadOnly ==
    [][NamedActionPosted => /\ sheet' = sheet
                            /\ LastTotal(sheet') = LastTotal(sheet)]_vars

\* the fixed script refuses a body without amount and category before it
\* touches the sheet
C27_FixedScriptReadOnly ==
    [][(NamedActionPosted /\ script = "fixed") => sheet' = sheet]_vars

\* with the setup script a named action that is answered with success has
\* appended a row, and a total that is no number
C27_SetupScriptAppends ==
    (/\ script = "setup"
     /\ facade.op = "doPost"
     /\ Has(facade.arg[1], "action")
     /\ facade.returned[1].success)
        => /\ GetLastRow(sheet) > 1
           /\ sheet[GetLastRow(sheet)].total = NotANumber

\* the POSTs of the handler that has just run
PostsAt(trace) == {i \in DOMAIN trace : trace[i].kind = "post"}

MessageHandled(message) == \E answer \in LogAnswers : handle_message(message, answer)

ParsesToExpense(message) ==
    LET parsed == ParsedBotMessages[message]
    IN  parsed[3] = "" /\ parsed[1] # None /\ parsed[2] # None

\* C28: in handle_message the probe comes before the parse and the parse
\* before the log: one message gives at most one log POST, preceded by a
\* probe that succeeded and carrying what the message parsed to; a message
\* that does not parse or that arrives while the probe fails gives no POST,
\* and while the probe fails the reply is the connection error whether or
\* not the message parses
C28_ProbeParseLog ==
    [][\A message \in BotMessages :
          MessageHandled(message) =>
             LET trace == run'.trace
                 parsed == ParsedBotMessages[message]
             IN  /\ Cardinality(PostsAt(trace)) <= 1
                 /\ \A i \in PostsAt(trace) :
                       /\ i = 2
                       /\ trace[1] = Probe(TRUE)
                       /\ up
                       /\ ParsesToExpense(message)
                       /\ trace[i] = PostLog(parsed[1][1], parsed[2][1])
                 /\ (~up \/ ~ParsesToExpense(message)) => PostsAt(trace) = {}
                 /\ ~up => trace = Unavailable
                 /\ (up /\ ~ParsesToExpense(message)) =>
                       /\ trace[1] = Probe(TRUE)
                       /\ trace[2].kind = "reply"
                       /\ Len(trace) = 2]_vars

\* a message was handled and its expense was posted after the probe
C28_Witness ==
    /\ run.op = "message"
    /\ run.pc = "done"
    /\ Len(run.trace) >= 3
    /\ run.trace[1] = Probe(TRUE)
    /\ run.trace[2].kind = "post"
    /\ run.trace[2].what = "log_expense"

\* a message arrived while the probe failed, or did not parse, and nothing
\* was posted
C28_WitnessNoPost ==
    /\ run.op = "message"
    /\ run.pc = "done"
    /\ run.trace # <<>>
    /\ PostsAt(run.trace) = {}

-----------------------------------------------------------------------------
(* The AI handlers as tasks of one event loop.  A task runs from one await *)
(* to the next without interruption: what a handler does between two      *)
(* awaits is one step, and the steps of the tasks interleave freely.       *)
(* MistralAnalyzer() and analyze_expenses are ordinary calls, no awaits.    *)

MaxTasks == 2
MaxConstructions == 2

Task(op, pc, trace) == [op |-> op, pc |-> pc, trace |-> trace]

PeriodOf(op) == IF op \in {"analyze_monthly", "monthly_ai"} THEN "monthly" ELSE "annual"

\* the probe of a command handler; a button handler has none
BeforeConstruction(op) ==
    IF op \in {"analyze_monthly", "analyze_annual"} THEN <<Probe(TRUE)>> ELSE <<>>

Spawn(task) == tasks' = [tasks EXCEPT !.handler = Append(@, task)]

\* a variant that constructs the analyzer whether or not there is one
TaskBeginsConstructsAlways(op, constructs) ==
    /\ Len(tasks.handler) < MaxTasks
    /\ IF op \in {"analyze_monthly", "analyze_annual"} /\ ~is_connected
       THEN /\ Spawn(Task(op, "returning", Unavailable))
            /\ UNCHANGED ai_analyzer
       ELSE IF ~constructs
       THEN /\ Spawn(Task(op, "returning",
                          BeforeConstruction(op)
                          \o <<Construct(FALSE), Reply("Failed to initialize AI analyzer.")>>))
            /\ UNCHANGED ai_analyzer
       ELSE /\ tasks.constructed < MaxConstructions
            /\ ai_analyzer' = Some("MistralAnalyzer")
            /\ tasks' = [handler |->
                            Append(tasks.handler,
                                   Task(op, "initialized",
                                        BeforeConstruction(op)
                                        \o <<Construct(TRUE),
                                             Reply("Initializing AI analyzer...")>>)),
                         constructed |-> tasks.constructed + 1]
    /\ UNCHANGED <<up, run, an>>
    /\ UNCHANGED parserVars
    /\ UNCHANGED facadeVars
    /\ UNCHANGED ledgerVars

\* an AI command or AI button handler from its start to its first await:
\* the connection check of a command, the construction of the analyzer if
\* self.ai_analyzer is None, and the reply that is awaited
TaskBegins(op, constructs) ==
    /\ Len(tasks.handler) < MaxTasks
    /\ IF op \in {"analyze_monthly", "analyze_annual"} /\ ~is_connected
       THEN /\ Spawn(Task(op, "returning", Unavailable))
            /\ UNCHANGED ai_analyzer
       ELSE IF ai_analyzer # None
       THEN /\ Spawn(Task(op, "starting",
                          BeforeConstruction(op) \o <<Reply("Starting AI Analysis")>>))
            /\ UNCHANGED ai_analyzer
       ELSE IF ~constructs
       THEN /\ Spawn(Task(op, "returning",
                          BeforeConstruction(op)
                          \o <<Construct(FALSE), Reply("Failed to initialize AI analyzer.")>>))
            /\ UNCHANGED ai_analyzer
       ELSE /\ tasks.constructed < MaxConstructions
            /\ ai_analyzer' = Some("MistralAnalyzer")
            /\ tasks' = [handler |->
                            Append(tasks.handler,
                                   Task(op, "initialized",
                                        BeforeConstruction(op)
                                        \o <<Construct(TRUE),
                                             Reply("Initializing AI analyzer...")>>)),
                         constructed |-> tasks.constructed + 1]
    /\ UNCHANGED <<up, run, an>>
    /\ UNCHANGED parserVars
    /\ UNCHANGED facadeVars
    /\ UNCHANGED ledgerVars

Resume(t, pc, events) ==
    /\ tasks' = [tasks EXCEPT !.handler[t].pc = pc, !.handler[t].trace = @ \o events]
    /\ UNCHANGED <<up, ai_analyzer, run, an>>
    /\ UNCHANGED parserVars
    /\ UNCHANGED facadeVars
    /\ UNCHANGED ledgerVars

\* after "Initializing AI analyzer..." was sent: the initial message
TaskStarts(t) ==
    /\ t \in DOMAIN tasks.handler
    /\ tasks.handler[t].pc = "initialized"
    /\ Resume(t, "starting", <<Reply("Starting AI Analysis")>>)

\* after the initial message was sent: analyze_expenses, the report, and
\* the reply that is awaited
TaskAnalyzes(t, failed) ==
    /\ t \in DOMAIN tasks.handler
    /\ tasks.handler[t].pc = "starting"
    /\ LET op == tasks.handler[t].op
           a == [stage |-> IF failed THEN "Failed" ELSE "Terminal",
                 error |-> Some(Error("Exception", <<>>))]
       IN  Resume(t, "returning",
                  <<Event("analyze", PeriodOf(op))>> \o AfterAnalyzeExpenses(op, a, TRUE))

\* the last reply was sent: the handler returns
TaskReturns(t) ==
    /\ t \in DOMAIN tasks.handler
    /\ tasks.handler[t].pc = "returning"
    /\ tasks' = [tasks EXCEPT !.handler =
                     [i \in 1..(Len(@) - 1) |-> IF i < t THEN @[i] ELSE @[i + 1]]]
    /\ UNCHANGED <<up, ai_analyzer, run, an>>
    /\ UNCHANGED parserVars
    /\ UNCHANGED facadeVars
    /\ UNCHANGED ledgerVars

TasksNext ==
    \/ \E op \in AIHandlers, constructs \in BOOLEAN : TaskBegins(op, constructs)
    \/ \E t \in 1..MaxTasks : TaskStarts(t)
    \/ \E t \in 1..MaxTasks, failed \in BOOLEAN : TaskAnalyzes(t, failed)
    \/ \E t \in 1..MaxTasks : TaskReturns(t)
    \/ BackendChanges

SpecTasks == BotInit /\ [][TasksNext]_vars

HasEvent(trace, ev) == \E i \in DOMAIN trace : trace[i] = ev
HasKind(trace, kind) == \E i \in DOMAIN trace : trace[i].kind = kind

\* the step is the start of an AI handler that constructed the analyzer
ConstructedInHandler ==
    /\ Len(tasks'.handler) = Len(tasks.handler) + 1
    /\ LET new == tasks'.handler[Len(tasks'.handler)]
       IN  /\ new.op \in AIHandlers
           /\ HasEvent(new.trace, Construct(TRUE))
    /\ tasks'.constructed = tasks.constructed + 1

\* a handler whose construction failed has reported it and is about to
\* return, having started no analysis
FailureReported(task) ==
    HasEvent(task.trace, Construct(FALSE)) =>
        /\ task.pc = "returning"
        /\ task.trace[Len(task.trace)] = Reply("Failed to initialize AI analyzer.")
        /\ ~HasKind(task.trace, "analyze")
        /\ ~HasEvent(task.trace, Reply("Starting AI Analysis"))

\* ai_analyzer changes only from None to an analyzer, in the step of an AI
\* handler that constructed it, and every construction assigns it
AssignedByConstruction ==
    /\ (ai_analyzer' # ai_analyzer) =>
          (ai_analyzer = None /\ ai_analyzer' # None /\ ConstructedInHandler)
    /\ (tasks'.constructed # tasks.constructed) => (ai_analyzer' # ai_analyzer)

\* C29: ai_analyzer starts as None, is assigned only by a successful
\* construction in an AI handler and is never reset; over every
\* interleaving of the AI handlers the analyzer is constructed at most
\* once; a handler whose construction fails reports the failure and runs
\* no analysis stage
C29_AnalyzerConstructedOnce ==
    /\ ai_analyzer = None
    /\ [][AssignedByConstruction]_vars
    /\ [](/\ tasks.constructed <= 1
          /\ ((ai_analyzer = None) <=> (tasks.constructed = 0))
          /\ \A t \in DOMAIN tasks.handler : FailureReported(tasks.handler[t]))

\* two AI handlers are in progress at once, the first of which constructed
\* the analyzer and has not run its analysis yet
C29_Witness ==
    /\ Len(tasks.handler) = 2
    /\ tasks.constructed = 1
    /\ HasEvent(tasks.handler[1].trace, Construct(TRUE))
    /\ tasks.handler[1].pc = "initialized"
    /\ tasks.handler[2].pc = "starting"

\* a construction failed and the handler reported it
C29_WitnessFailure ==
    \E t \in DOMAIN tasks.handler :
        /\ HasEvent(tasks.handler[t].trace, Construct(FALSE))
        /\ tasks.handler[t].pc = "returning"

-----------------------------------------------------------------------------
(* Claims about the data an analysis runs on (checked under SpecCore).      *)

NoExpenseDataFound == Some(Error("ValueError", <<"No expense data found">>))

\* analyze_expenses ended in its own ValueError about an empty frame
EndedWithoutData == an.stage = "Failed" /\ an.error = NoExpenseDataFound

\* the web app answered the data request with success
Succeeded(response) == response.kind = "json" /\ response.body.success

\* ... with no expense list or an empty one, or with rows that lack the
\* amount or the description field
WithoutUsableRows(response) ==
    Succeeded(response) /\ response.body.data \in {"missing", "nocolumns"}

\* ... with the amount and description fields as columns that hold no row
WithEmptyColumns(response) == Succeeded(response) /\ response.body.data = "norows"

\* C30 as stated: analyze_expenses ends in the failure about missing
\* expense data for no answer of the ledger
C30_NoDataFailureUnreachable == ~EndedWithoutData

\* C30: when the ledger answers the data request with success and an
\* empty list, or with rows that lack the amount or description field, the
\* analysis goes on with the sample expenses, and an analysis on the sample
\* that passed its three stages has an ordinary result; the failure about
\* missing expense data is reached exactly by an answer whose data has the
\* two fields as columns without a row
C30_SampleInsteadOfFailure ==
    /\ [][\A response \in HttpResponses(TRUE) :
            ExtractExpenseDataFrom(response) =>
               /\ WithoutUsableRows(response) =>
                     (an'.stage = "DataExtracted" /\ an'.df = "sample")
               /\ (an'.stage = "Failed" /\ an'.error = NoExpenseDataFound)
                     <=> WithEmptyColumns(response)]_vars
    /\ []((an.df = "sample" /\ an.stage = "Terminal") =>
             /\ an.categories # None
             /\ an.totals # None
             /\ an.insights # None
             /\ an.result # None
             /\ an.error = None)

\* an analysis ran its three stages on the sample expenses and has a result
C30_Witness ==
    /\ an.df = "sample"
    /\ an.stage = "Terminal"
    /\ an.result # None
    /\ Len(an.heard) >= 3

=============================================================================
